---------------------------- MODULE Spec2Model ----------------------------
(***************************************************************************)
(* The real-time layer of the blog platform (backend websocket setup,      *)
(* src/unnamed/part_001) together with the REST like endpoints that share  *)
(* the persisted like arrays.                                              *)
(*                                                                         *)
(* Library semantics the handlers rely on:                                 *)
(*  - socket.io in-memory adapter: socket.join / socket.leave update the   *)
(*    room->sockets map and the socket->rooms map together; on close the   *)
(*    socket leaves every room before its 'disconnect' listeners run.      *)
(*  - mongoose: doc.save() validates, then writes a delta.  Array.push is  *)
(*    sent as an atomic $push (version incremented, not checked); a splice *)
(*    is sent as $set of the whole array guarded by the version key (a     *)
(*    concurrent version change makes save() throw VersionError).  A delta *)
(*    that matches no document makes save() throw.  findByIdAndUpdate runs *)
(*    no validators and does not touch the version key.                    *)
(*  - every await on the store is a suspension point: the store executes   *)
(*    the operation in one step and the handler resumes in a later one.    *)
(***************************************************************************)
EXTENDS Integers, Sequences, FiniteSets, TLC

\* ------------------------------------------------------------------ bounds
\* handlers that may be suspended on the store at the same time
MaxTasks == 2
\* comments the store may ever hold (ids are never reused)
MaxComments == 2
\* mutation requests (websocket events and REST calls) served in one run
MaxEvents == 4

\* ----------------------------------------------------------- value spaces
Conns == {"c1", "c2", "c3"}
UserIds == {"u1", "u2"}
\* an id a token may carry although no such user exists
GhostUser == "u9"
PostIds == {"p1", "p2"}
NoId == "none"

\* credentials a client may present in socket.handshake.auth.token
NoToken == [kind |-> "missing", userId |-> NoId]
BadToken == [kind |-> "forged", userId |-> NoId]
Jwt(u) == [kind |-> "jwt", userId |-> u]
Tokens == {NoToken, BadToken} \cup {Jwt(u) : u \in UserIds \cup {GhostUser}}
Unset == [kind |-> "unset", userId |-> NoId]

\* the room name `post-${postId}`
Room(p) == <<"post-", p>>
RoomIds == {Room(p) : p \in PostIds}

NoIdentity == [userId |-> NoId, username |-> NoId]

VARIABLES
  connState,   \* per connection: Connecting | Active | Closed
  cred,        \* the credential the connection presented at handshake
  connError,   \* the error passed to next() by the middleware, or "none"
  identity,    \* socket.userId / socket.username
  rooms,       \* adapter.rooms: room -> set of sockets
  sids,        \* adapter.sids: socket -> set of rooms
  users,       \* User collection: id -> document
  posts,       \* Post collection: id -> document
  comments,    \* Comment collection: id -> document
  nextComment, \* number of comment ids handed out so far
  tasks,       \* handlers suspended on the store
  events,      \* mutation requests accepted so far
  lastAction,  \* history: what each identity last asked for on each entity
  toggle,      \* history: the pair of consecutive toggles being followed
  lastOp,      \* the handler step taken last
  lastEmit     \* the events that step delivered

vars == <<connState, cred, connError, identity, rooms, sids, users, posts,
          comments, nextComment, tasks, events, lastAction, toggle, lastOp,
          lastEmit>>

connVars == <<connState, cred, connError, identity>>
roomVars == <<rooms, sids>>
dbVars == <<users, posts, comments, nextComment>>
likeHist == <<lastAction, toggle>>

\* ---------------------------------------------------------------- events
\* One delivered server->client event.  Every event uses the same record
\* shape; a field an event does not carry holds NoId / -1 / <<>>.
BlankMsg ==
  [to |-> NoId, ev |-> NoId, postId |-> NoId, commentId |-> NoId,
   likes |-> -1, action |-> NoId, userId |-> NoId, username |-> NoId,
   content |-> <<>>, status |-> NoId, error |-> NoId, toUserId |-> NoId,
   toUsername |-> NoId, type |-> NoId]

\* the handler step taken last; conn is the socket the handler belongs to
NoOp ==
  [name |-> NoId, conn |-> NoId, userId |-> NoId, postId |-> NoId,
   commentId |-> NoId, action |-> NoId, content |-> <<>>, outcome |-> NoId,
   found |-> TRUE, err |-> "none", likes |-> -1, committed |-> -1,
   toUserId |-> NoId, left |-> {}, joined |-> {}, pending |-> {},
   after |-> {}]

\* a handler step that ends at an await: nothing is delivered yet
Suspended(name) == [NoOp EXCEPT !.name = name, !.outcome = "suspended"]

\* sockets currently connected to the namespace
Connected == {c \in Conns : connState[c] = "Active"}

\* (variant: io.emit, every connected socket)
InRoomEveryone(p) == Connected

\* io.to(room): every socket in the room
InRoom(p) == rooms[Room(p)]
\* (variant: io.to(room), the sender included)
InRoomWithSender(p, c) == rooms[Room(p)]

\* socket.to(room): every socket in the room but the sender
InRoomExcept(p, c) == rooms[Room(p)] \ {c}
\* socket.broadcast: every connected socket but the sender
AllExcept(c) == Connected \ {c}
\* socket.emit reaches the socket only while it is connected
Self(c) == {c} \cap Connected

\* ------------------------------------------------------------------ Init
Roles == {"user", "moderator", "admin"}

\* alice (u1) is an ordinary user, bob (u2) an administrator
SeedUsers ==
  [u \in UserIds |-> [username |-> IF u = "u1" THEN "alice" ELSE "bob",
                      role |-> IF u = "u1" THEN "user" ELSE "admin"]]

PublishedPost == [status |-> "published", likes |-> <<>>]
\* the store starts with the published post p1; no post p2 exists
SeedPosts == [p \in {"p1"} |-> PublishedPost]

\* comment ids in the order the store hands them out
CommentNames == <<"k1", "k2", "k3", "k4">>
CommentId(n) == CommentNames[n]
CommentIds == {CommentId(n) : n \in 1..MaxComments}
\* an id no comment ever has
MissingComment == "k0"

\* the store starts with one comment by u1 on p1
SeedComments ==
  [k \in {CommentId(1)} |->
     [content |-> <<"a">>, author |-> "u1", post |-> "p1",
      parentComment |-> NoId, likes |-> <<>>, isEdited |-> FALSE]]

IdleTask ==
  [kind |-> "idle", pc |-> "idle", conn |-> NoId, userId |-> NoId,
   postId |-> NoId, commentId |-> NoId, action |-> NoId,
   content |-> <<>>, author |-> NoId, likes |-> <<>>,
   op |-> "none", stale |-> FALSE, found |-> TRUE, err |-> "none",
   committed |-> -1, claimed |-> NoId, role |-> NoId, after |-> {}]

TaskIds == 1..MaxTasks

\* the entities that carry a like array
Entities == PostIds \cup CommentIds
\* no pair of toggles is being followed
NoToggle ==
  [target |-> NoId, user |-> NoId, first |-> NoId, orig |-> <<>>, stage |-> 0,
   slot |-> 0]

Init ==
  /\ connState = [c \in Conns |-> "Connecting"]
  /\ cred = [c \in Conns |-> Unset]
  /\ connError = [c \in Conns |-> "none"]
  /\ identity = [c \in Conns |-> NoIdentity]
  /\ rooms = [r \in RoomIds |-> {}]
  /\ sids = [c \in Conns |-> {}]
  /\ users = SeedUsers
  /\ posts = SeedPosts
  /\ comments = SeedComments
  /\ nextComment = Cardinality(DOMAIN SeedComments)
  /\ tasks = [t \in TaskIds |-> IdleTask]
  /\ events = 0
  /\ lastAction = [e \in Entities |-> [u \in UserIds |-> "none"]]
  /\ toggle = NoToggle
  /\ lastOp = NoOp
  /\ lastEmit = {}

\* ------------------------------------------------- handshake (io.use)
\* jwt.verify: a forged token throws, a genuine one yields its payload
VerifyThrows(tok) == tok.kind # "jwt"

\* a middleware that lacks the `if (!user)` rejection
HandshakeNoUserCheck(c, tok, dbFail) ==
  /\ connState[c] = "Connecting"
  /\ cred' = [cred EXCEPT ![c] = tok]
  /\ IF tok.kind = "missing" \/ VerifyThrows(tok) \/ dbFail
       THEN /\ connError' = [connError EXCEPT ![c] = "Authentication error"]
            /\ connState' = [connState EXCEPT ![c] = "Closed"]
            /\ UNCHANGED identity
       ELSE /\ identity' = [identity EXCEPT ![c] =
                  [userId |-> tok.userId,
                   username |-> IF tok.userId \in DOMAIN users
                                  THEN users[tok.userId].username ELSE NoId]]
            /\ connState' = [connState EXCEPT ![c] = "Active"]
            /\ UNCHANGED connError
  /\ lastOp' = [NoOp EXCEPT !.name = "handshake", !.conn = c]
  /\ lastEmit' = {}
  /\ UNCHANGED <<events, likeHist, roomVars, dbVars, tasks>>

\* The authentication middleware.  dbFail: User.findById rejects.
Handshake(c, tok, dbFail) ==
  /\ connState[c] = "Connecting"
  /\ cred' = [cred EXCEPT ![c] = tok]
  /\ IF tok.kind = "missing"
       THEN /\ connError' = [connError EXCEPT ![c] = "Authentication error"]
            /\ connState' = [connState EXCEPT ![c] = "Closed"]
            /\ UNCHANGED identity
     ELSE IF VerifyThrows(tok) \/ dbFail
       THEN /\ connError' = [connError EXCEPT ![c] = "Authentication error"]
            /\ connState' = [connState EXCEPT ![c] = "Closed"]
            /\ UNCHANGED identity
     ELSE IF tok.userId \notin DOMAIN users
       THEN /\ connError' = [connError EXCEPT ![c] = "User not found"]
            /\ connState' = [connState EXCEPT ![c] = "Closed"]
            /\ UNCHANGED identity
     ELSE /\ identity' = [identity EXCEPT ![c] =
                 [userId |-> tok.userId, username |-> users[tok.userId].username]]
          /\ connState' = [connState EXCEPT ![c] = "Active"]
          /\ UNCHANGED connError
  /\ lastOp' = [NoOp EXCEPT !.name = "handshake", !.conn = c]
  /\ lastEmit' = {}
  /\ UNCHANGED <<events, likeHist, roomVars, dbVars, tasks>>

\* ------------------------------------------------------ room registry
\* (variant: a join that is served whatever state the connection is in)
JoinPostAnyState(c, p) ==
  /\ rooms' = [rooms EXCEPT ![Room(p)] = @ \cup {c}]
  /\ sids' = [sids EXCEPT ![c] = @ \cup {Room(p)}]
  /\ lastOp' = [NoOp EXCEPT !.name = "join-post", !.conn = c, !.postId = p,
                            !.userId = identity[c].userId,
                            !.joined = {Room(p)} \ sids[c]]
  /\ lastEmit' = {}
  /\ UNCHANGED <<events, likeHist, connVars, dbVars, tasks>>

\* (variant: a join that reports an error for a room the socket is in)
JoinPostOnce(c, p) ==
  /\ connState[c] = "Active"
  /\ rooms' = [rooms EXCEPT ![Room(p)] = @ \cup {c}]
  /\ sids' = [sids EXCEPT ![c] = @ \cup {Room(p)}]
  /\ lastOp' = [NoOp EXCEPT !.name = "join-post", !.conn = c, !.postId = p,
                            !.userId = identity[c].userId,
                            !.joined = {Room(p)} \ sids[c]]
  /\ lastEmit' = IF Room(p) \in sids[c]
                   THEN {[BlankMsg EXCEPT !.to = c, !.ev = "error",
                                          !.error = "Already joined"]}
                   ELSE {}
  /\ UNCHANGED <<events, likeHist, connVars, dbVars, tasks>>

\* socket.join(`post-${postId}`): adding a room the socket is in changes
\* nothing
JoinPost(c, p) ==
  /\ connState[c] = "Active"
  /\ rooms' = [rooms EXCEPT ![Room(p)] = @ \cup {c}]
  /\ sids' = [sids EXCEPT ![c] = @ \cup {Room(p)}]
  /\ lastOp' = [NoOp EXCEPT !.name = "join-post", !.conn = c, !.postId = p,
                            !.userId = identity[c].userId,
                            !.joined = {Room(p)} \ sids[c]]
  /\ lastEmit' = {}
  /\ UNCHANGED <<events, likeHist, connVars, dbVars, tasks>>

\* a leave that forgets the socket's own room set
LeavePostRoomOnly(c, p) ==
  /\ connState[c] = "Active"
  /\ rooms' = [rooms EXCEPT ![Room(p)] = @ \ {c}]
  /\ lastOp' = [NoOp EXCEPT !.name = "leave-post", !.conn = c, !.postId = p,
                            !.userId = identity[c].userId,
                            !.left = {Room(p)} \cap sids[c]]
  /\ lastEmit' = {}
  /\ UNCHANGED <<events, likeHist, connVars, sids, dbVars, tasks>>

\* socket.leave(`post-${postId}`)
LeavePost(c, p) ==
  /\ connState[c] = "Active"
  /\ rooms' = [rooms EXCEPT ![Room(p)] = @ \ {c}]
  /\ sids' = [sids EXCEPT ![c] = @ \ {Room(p)}]
  /\ lastOp' = [NoOp EXCEPT !.name = "leave-post", !.conn = c, !.postId = p,
                            !.userId = identity[c].userId,
                            !.left = {Room(p)} \cap sids[c]]
  /\ lastEmit' = {}
  /\ UNCHANGED <<events, likeHist, connVars, dbVars, tasks>>

\* ------------------------------------------------------- event router
\* the event names the connection callback registers listeners for
Registered ==
  {"join-post", "leave-post", "new-comment", "update-comment", "delete-comment",
   "post-like", "comment-like", "typing-start", "typing-stop", "user-online",
   "private-message"}

\* event names a client may send
InboundNames == Registered \cup {"moderate-comment", "user-offline"}

\* (variant: a catch-all listener that answers unknown names with an error)
UnhandledReportsError(c, name) ==
  /\ connState[c] = "Active"
  /\ name \notin Registered
  /\ lastOp' = [NoOp EXCEPT !.name = name, !.conn = c,
                            !.userId = identity[c].userId]
  /\ lastEmit' = {[BlankMsg EXCEPT !.to = c, !.ev = "error",
                                   !.error = "Unknown event"]}
  /\ UNCHANGED <<events, likeHist, connVars, roomVars, dbVars, tasks>>

\* An event arrives whose name has no listener: the socket's emitter finds
\* nothing to call (there is no onAny and no packet middleware).
Unhandled(c, name) ==
  /\ connState[c] = "Active"
  /\ name \notin Registered
  /\ lastOp' = [NoOp EXCEPT !.name = name, !.conn = c,
                            !.userId = identity[c].userId]
  /\ lastEmit' = {}
  /\ UNCHANGED <<events, likeHist, connVars, roomVars, dbVars, tasks>>

\* (variant: presence sent with io.emit, the sender included)
UserOnlineToAll(c) ==
  /\ connState[c] = "Active"
  /\ lastOp' = [NoOp EXCEPT !.name = "user-online", !.conn = c,
                            !.userId = identity[c].userId]
  /\ lastEmit' = {[BlankMsg EXCEPT !.to = d, !.ev = "user-status",
                                   !.userId = identity[c].userId,
                                   !.username = identity[c].username,
                                   !.status = "online"] : d \in Connected}
  /\ UNCHANGED <<events, likeHist, connVars, roomVars, dbVars, tasks>>

\* socket.on('user-online'): user-status online with socket.broadcast, to
\* every other connected socket
UserOnline(c) ==
  /\ connState[c] = "Active"
  /\ lastOp' = [NoOp EXCEPT !.name = "user-online", !.conn = c,
                            !.userId = identity[c].userId]
  /\ lastEmit' = {[BlankMsg EXCEPT !.to = d, !.ev = "user-status",
                                   !.userId = identity[c].userId,
                                   !.username = identity[c].username,
                                   !.status = "online"] : d \in AllExcept(c)}
  /\ UNCHANGED <<events, likeHist, connVars, roomVars, dbVars, tasks>>

\* the events of socket c whose handlers are suspended on the store
Pending(c) == {tasks[t].kind : t \in {s \in TaskIds : tasks[s].conn = c}}

\* (variant: a close that leaves the socket in its rooms)
DisconnectKeepsRooms(c) ==
  /\ connState[c] = "Active"
  /\ connState' = [connState EXCEPT ![c] = "Closed"]
  /\ UNCHANGED <<rooms, sids>>
  /\ lastOp' = [NoOp EXCEPT !.name = "disconnect", !.conn = c,
                            !.userId = identity[c].userId, !.left = {},
                            !.pending = Pending(c)]
  /\ lastEmit' = {[BlankMsg EXCEPT !.to = d, !.ev = "user-status",
                                   !.userId = identity[c].userId,
                                   !.username = identity[c].username,
                                   !.status = "offline"] : d \in AllExcept(c)}
  /\ UNCHANGED <<events, likeHist, cred, connError, identity, dbVars, tasks>>

\* ------------------------------------------------------ typing indicators
TypingTypes == {"comment", "reply"}

\* socket.on('typing-start'): user-typing to the room, sender excluded
TypingStart(c, p, ty) ==
  /\ connState[c] = "Active"
  /\ lastOp' = [NoOp EXCEPT !.name = "typing-start", !.conn = c, !.postId = p,
                            !.userId = identity[c].userId, !.action = ty]
  /\ lastEmit' = {[BlankMsg EXCEPT !.to = d, !.ev = "user-typing",
                                   !.userId = identity[c].userId,
                                   !.username = identity[c].username,
                                   !.type = ty] : d \in InRoomExcept(p, c)}
  /\ UNCHANGED <<events, likeHist, connVars, roomVars, dbVars, tasks>>

\* socket.on('typing-stop'): user-stopped-typing to the room, sender excluded
TypingStop(c, p) ==
  /\ connState[c] = "Active"
  /\ lastOp' = [NoOp EXCEPT !.name = "typing-stop", !.conn = c, !.postId = p,
                            !.userId = identity[c].userId]
  /\ lastEmit' = {[BlankMsg EXCEPT !.to = d, !.ev = "user-stopped-typing",
                                   !.userId = identity[c].userId,
                                   !.username = identity[c].username]
                  : d \in InRoomExcept(p, c)}
  /\ UNCHANGED <<events, likeHist, connVars, roomVars, dbVars, tasks>>

\* (variant: a close that abandons the socket's suspended handlers)
DisconnectCancels(c) ==
  /\ connState[c] = "Active"
  /\ connState' = [connState EXCEPT ![c] = "Closed"]
  /\ rooms' = [r \in RoomIds |-> rooms[r] \ {c}]
  /\ sids' = [sids EXCEPT ![c] = {}]
  /\ tasks' = [t \in DOMAIN tasks |->
                 IF tasks[t].conn = c THEN IdleTask ELSE tasks[t]]
  /\ lastOp' = [NoOp EXCEPT !.name = "disconnect", !.conn = c,
                            !.userId = identity[c].userId, !.left = sids[c],
                            !.pending = Pending(c)]
  /\ lastEmit' = {[BlankMsg EXCEPT !.to = d, !.ev = "user-status",
                                   !.userId = identity[c].userId,
                                   !.username = identity[c].username,
                                   !.status = "offline"] : d \in AllExcept(c)}
  /\ UNCHANGED <<events, likeHist, cred, connError, identity, dbVars>>

\* ------------------------------------------------------------ disconnect
\* The socket closes: it leaves all rooms (lastOp.left records which, and
\* lastOp.pending which of its handlers are suspended at that moment), then
\* the 'disconnect' listener broadcasts user-status offline to every other
\* connected socket.
Disconnect(c) ==
  /\ connState[c] = "Active"
  /\ connState' = [connState EXCEPT ![c] = "Closed"]
  /\ rooms' = [r \in RoomIds |-> rooms[r] \ {c}]
  /\ sids' = [sids EXCEPT ![c] = {}]
  /\ lastOp' = [NoOp EXCEPT !.name = "disconnect", !.conn = c,
                            !.userId = identity[c].userId, !.left = sids[c],
                            !.pending = Pending(c)]
  /\ lastEmit' = {[BlankMsg EXCEPT !.to = d, !.ev = "user-status",
                                   !.userId = identity[c].userId,
                                   !.username = identity[c].username,
                                   !.status = "offline"] : d \in AllExcept(c)}
  /\ UNCHANGED <<events, likeHist, cred, connError, identity, dbVars, tasks>>

\* ------------------------------------------------- array helpers (likes)
\* Array.prototype.indexOf, 1-based; 0 when absent (JavaScript's -1)
IndexOf(arr, u) ==
  IF \E i \in 1..Len(arr) : arr[i] = u
    THEN CHOOSE i \in 1..Len(arr) : arr[i] = u /\ \A j \in 1..(i - 1) : arr[j] # u
    ELSE 0

Includes(arr, u) == IndexOf(arr, u) > 0

\* arr.splice(index, 1)
Splice(arr, i) == SubSeq(arr, 1, i - 1) \o SubSeq(arr, i + 1, Len(arr))

\* the identities in a like array
LikeSet(arr) == {arr[i] : i \in 1..Len(arr)}

\* The in-memory edit of the websocket like handlers: the array as the
\* handler leaves it and the atomic operation save() will send
\* (push -> $push, splice -> $set of the array, nothing -> no delta).
ApplyLike(arr, u, action) ==
  IF action = "like"
    THEN IF ~Includes(arr, u)
           THEN [likes |-> Append(arr, u), op |-> "push"]
           ELSE [likes |-> arr, op |-> "none"]
    ELSE IF IndexOf(arr, u) > 0
           THEN [likes |-> Splice(arr, IndexOf(arr, u)), op |-> "set"]
           ELSE [likes |-> arr, op |-> "none"]

\* The in-memory edit of the REST like endpoints: a toggle.
ToggleLike(arr, u) ==
  IF IndexOf(arr, u) > 0
    THEN [likes |-> Splice(arr, IndexOf(arr, u)), op |-> "set"]
    ELSE [likes |-> Append(arr, u), op |-> "push"]

\* ------------------------------------------------------------ task slots
Idle(t) == tasks[t].kind = "idle"
\* a handler takes the lowest free slot
FreeSlot(t) == Idle(t) /\ \A s \in TaskIds : s < t => ~Idle(s)

\* the websocket handlers that change the store and broadcast the change
MutationKinds ==
  {"new-comment", "update-comment", "delete-comment", "post-like", "comment-like"}

\* the handlers whose change for post p is committed and not yet broadcast
Waiting(p) ==
  {s \in TaskIds : /\ tasks[s].kind \in MutationKinds
                   /\ tasks[s].pc = "emit" /\ tasks[s].err = "none"
                   /\ tasks[s].postId = p}

\* slot t is released; the handler in it no longer precedes any other
Release(t) ==
  [s \in TaskIds |->
     IF s = t THEN IdleTask ELSE [tasks[s] EXCEPT !.after = @ \ {t}]]

\* a mutation request is accepted into slot t
Accept(t) == FreeSlot(t) /\ events < MaxEvents /\ events' = events + 1

\* the slots of other handlers that hold a copy of the same document
SameDoc(t, s) ==
  /\ s # t
  /\ tasks[s].pc = "save"
  /\ IF tasks[t].kind \in {"post-like", "rest-post-like"}
       THEN tasks[s].kind \in {"post-like", "rest-post-like"}
            /\ tasks[s].postId = tasks[t].postId
       ELSE tasks[s].kind \in {"comment-like", "rest-comment-like"}
            /\ tasks[s].commentId = tasks[t].commentId

\* (variant: the whole-array $set is applied without the version guard)
SaveLikesUnversioned(stored, present, task, dbFail) ==
  IF dbFail THEN [likes |-> stored, err |-> "store", bumped |-> FALSE]
  ELSE IF task.op = "none" THEN [likes |-> stored, err |-> "none", bumped |-> FALSE]
  ELSE IF ~present THEN [likes |-> stored, err |-> "gone", bumped |-> FALSE]
  ELSE IF task.op = "push"
    THEN [likes |-> Append(stored, task.userId), err |-> "none", bumped |-> TRUE]
  ELSE [likes |-> task.likes, err |-> "none", bumped |-> TRUE]

\* The store runs the update save() sent for the like array `stored` of a
\* document that exists.  present: the document is still in the collection.
\* Result: the array now stored, whether save() resolved, whether the
\* version key moved.
SaveLikes(stored, present, task, dbFail) ==
  IF dbFail THEN [likes |-> stored, err |-> "store", bumped |-> FALSE]
  ELSE IF task.op = "none" THEN [likes |-> stored, err |-> "none", bumped |-> FALSE]
  ELSE IF ~present THEN [likes |-> stored, err |-> "gone", bumped |-> FALSE]
  ELSE IF task.op = "push"
    THEN [likes |-> Append(stored, task.userId), err |-> "none", bumped |-> TRUE]
  ELSE IF task.stale THEN [likes |-> stored, err |-> "version", bumped |-> FALSE]
  ELSE [likes |-> task.likes, err |-> "none", bumped |-> TRUE]

\* the task table after slot t ran its save with result r
AfterSave(t, r, nextPc) ==
  [s \in TaskIds |->
     IF s = t
       THEN [tasks[t] EXCEPT !.pc = nextPc, !.err = r.err,
                             !.committed = Cardinality(LikeSet(r.likes)),
                             !.after = IF r.err = "none"
                                         THEN Waiting(tasks[t].postId) ELSE {}]
     ELSE IF r.bumped /\ SameDoc(t, s)
       THEN [tasks[s] EXCEPT !.stale = TRUE]
     ELSE tasks[s]]

\* ------------------------------------------------------- like history
LikeKinds == {"post-like", "rest-post-like", "comment-like", "rest-comment-like"}

\* the entity a like handler works on
Target(k) ==
  IF k.kind \in {"post-like", "rest-post-like"} THEN k.postId ELSE k.commentId

\* a like handler on entity e is in flight
Busy(e) ==
  \E s \in TaskIds : tasks[s].kind \in LikeKinds /\ Target(tasks[s]) = e

Opposite(a) == IF a = "like" THEN "unlike" ELSE "like"

\* A like request by u on entity e, whose array is `stored`, starts in slot
\* t.  A request that changes u's membership while nothing else runs on e
\* opens a pair (stage 1); the opposite request by u right after the first
\* one completed is its second half (stage 3).
LikeArrives(t, e, u, a, stored) ==
  /\ lastAction' = [lastAction EXCEPT ![e][u] = a]
  /\ toggle' =
       IF Busy(e) THEN NoToggle
       ELSE IF /\ toggle.stage = 2 /\ toggle.target = e /\ toggle.user = u
               /\ a = Opposite(toggle.first)
         THEN [toggle EXCEPT !.stage = 3, !.slot = t]
       ELSE IF (a = "like") # Includes(stored, u)
         THEN [target |-> e, user |-> u, first |-> a, orig |-> stored,
               stage |-> 1, slot |-> t]
       ELSE NoToggle

\* the like handler in slot t completes with error kind err
LikeCompletes(t, err) ==
  /\ lastAction' = lastAction
  /\ toggle' = IF toggle.slot # t THEN toggle
               ELSE IF err # "none" THEN NoToggle
               ELSE [toggle EXCEPT !.stage = @ + 1, !.slot = 0]

\* ------------------------------------------------- post-like (websocket)
\* The event arrives and Post.findById runs; up to `await post.save()`.
PostLikeFind(t, c, p, action, dbFail) ==
  /\ connState[c] = "Active"
  /\ Accept(t)
  /\ LET u == identity[c].userId
         op == [NoOp EXCEPT !.name = "post-like", !.conn = c, !.userId = u,
                            !.postId = p, !.action = action]
     IN IF dbFail
          THEN /\ lastOp' = [op EXCEPT !.outcome = "error", !.err = "store"]
               /\ lastEmit' = {[BlankMsg EXCEPT !.to = d, !.ev = "post-error",
                                 !.error = "Failed to update likes"] : d \in Self(c)}
               /\ UNCHANGED <<tasks, likeHist>>
        ELSE IF p \notin DOMAIN posts
          THEN /\ lastOp' = [op EXCEPT !.outcome = "notfound", !.found = FALSE]
               /\ lastEmit' = {}
               /\ UNCHANGED <<tasks, likeHist>>
        ELSE LET e == ApplyLike(posts[p].likes, u, action)
             IN /\ LikeArrives(t, p, u, action, posts[p].likes)
                /\ tasks' = [tasks EXCEPT ![t] =
                     [IdleTask EXCEPT !.kind = "post-like", !.pc = "save",
                        !.conn = c, !.userId = u, !.postId = p,
                        !.action = action, !.likes = e.likes, !.op = e.op]]
                /\ lastOp' = Suspended(op.name)
                /\ lastEmit' = {}
  /\ UNCHANGED <<connVars, roomVars, dbVars>>

\* `await post.save()` runs at the store.
PostLikeSave(t, dbFail) ==
  /\ tasks[t].kind = "post-like"
  /\ tasks[t].pc = "save"
  /\ LET p == tasks[t].postId
         r == SaveLikes(posts[p].likes, TRUE, tasks[t], dbFail)
     IN /\ posts' = [posts EXCEPT ![p].likes = r.likes]
        /\ tasks' = AfterSave(t, r, "emit")
  /\ lastOp' = Suspended("post-like")
  /\ lastEmit' = {}
  /\ UNCHANGED <<events, likeHist, connVars, roomVars, users, comments, nextComment>>

\* (variant: the broadcast goes out with socket.to, which skips the sender)
PostLikeEmitToOthers(t) ==
  /\ tasks[t].kind = "post-like"
  /\ tasks[t].pc = "emit"
  /\ LET k == tasks[t]
         op == [NoOp EXCEPT !.name = "post-like", !.conn = k.conn,
                   !.userId = k.userId, !.postId = k.postId,
                   !.action = k.action, !.committed = k.committed,
                   !.after = k.after]
     IN IF k.err = "none"
          THEN /\ lastOp' = [op EXCEPT !.outcome = "broadcast"]
               /\ lastEmit' = {[BlankMsg EXCEPT !.to = d,
                                  !.ev = "post-likes-updated", !.postId = k.postId,
                                  !.likes = Len(k.likes), !.action = k.action]
                               : d \in InRoomExcept(k.postId, k.conn)}
          ELSE /\ lastOp' = [op EXCEPT !.outcome = "error", !.err = k.err]
               /\ lastEmit' = {[BlankMsg EXCEPT !.to = d, !.ev = "post-error",
                                 !.error = "Failed to update likes"]
                               : d \in Self(k.conn)}
  /\ tasks' = Release(t)
  /\ LikeCompletes(t, tasks[t].err)
  /\ UNCHANGED <<events, connVars, roomVars, dbVars>>

\* The handler resumes after save(): the broadcast, or the catch block.
PostLikeEmit(t) ==
  /\ tasks[t].kind = "post-like"
  /\ tasks[t].pc = "emit"
  /\ LET k == tasks[t]
         op == [NoOp EXCEPT !.name = "post-like", !.conn = k.conn,
                   !.userId = k.userId, !.postId = k.postId,
                   !.action = k.action, !.committed = k.committed,
                   !.after = k.after]
     IN IF k.err = "none"
          THEN /\ lastOp' = [op EXCEPT !.outcome = "broadcast"]
               /\ lastEmit' = {[BlankMsg EXCEPT !.to = d,
                                  !.ev = "post-likes-updated", !.postId = k.postId,
                                  !.likes = Len(k.likes), !.action = k.action]
                               : d \in InRoom(k.postId)}
          ELSE /\ lastOp' = [op EXCEPT !.outcome = "error", !.err = k.err]
               /\ lastEmit' = {[BlankMsg EXCEPT !.to = d, !.ev = "post-error",
                                 !.error = "Failed to update likes"]
                               : d \in Self(k.conn)}
  /\ tasks' = Release(t)
  /\ LikeCompletes(t, tasks[t].err)
  /\ UNCHANGED <<events, connVars, roomVars, dbVars>>

\* ---------------------------------------------- comment-like (websocket)
\* The event arrives and Comment.findById runs; up to `await comment.save()`.
CommentLikeFind(t, c, k, p, action, dbFail) ==
  /\ connState[c] = "Active"
  /\ Accept(t)
  /\ LET u == identity[c].userId
         op == [NoOp EXCEPT !.name = "comment-like", !.conn = c, !.userId = u,
                            !.postId = p, !.commentId = k, !.action = action]
     IN IF dbFail
          THEN /\ lastOp' = [op EXCEPT !.outcome = "error", !.err = "store"]
               /\ lastEmit' = {[BlankMsg EXCEPT !.to = d, !.ev = "comment-error",
                                 !.error = "Failed to update comment likes"]
                               : d \in Self(c)}
               /\ UNCHANGED <<tasks, likeHist>>
        ELSE IF k \notin DOMAIN comments
          THEN /\ lastOp' = [op EXCEPT !.outcome = "notfound", !.found = FALSE]
               /\ lastEmit' = {}
               /\ UNCHANGED <<tasks, likeHist>>
        ELSE LET e == ApplyLike(comments[k].likes, u, action)
             IN /\ LikeArrives(t, k, u, action, comments[k].likes)
                /\ tasks' = [tasks EXCEPT ![t] =
                     [IdleTask EXCEPT !.kind = "comment-like", !.pc = "save",
                        !.conn = c, !.userId = u, !.postId = p, !.commentId = k,
                        !.action = action, !.likes = e.likes, !.op = e.op,
                        !.found = p \in DOMAIN posts]]
                /\ lastOp' = Suspended(op.name)
                /\ lastEmit' = {}
  /\ UNCHANGED <<connVars, roomVars, dbVars>>

\* `await comment.save()` runs at the store.  The comment may have been
\* deleted since it was read; gone: a save without changes of a deleted
\* document rejects (it does in some mongoose releases and not in others).
CommentLikeSave(t, dbFail, gone) ==
  /\ tasks[t].kind = "comment-like"
  /\ tasks[t].pc = "save"
  /\ LET k == tasks[t].commentId
         present == k \in DOMAIN comments
         stored == IF present THEN comments[k].likes ELSE <<>>
         r == SaveLikes(stored, present, tasks[t], dbFail \/ (~present /\ gone))
     IN /\ comments' = IF present THEN [comments EXCEPT ![k].likes = r.likes]
                                  ELSE comments
        /\ tasks' = AfterSave(t, r, "emit")
  /\ lastOp' = Suspended("comment-like")
  /\ lastEmit' = {}
  /\ UNCHANGED <<events, likeHist, connVars, roomVars, users, posts, nextComment>>

\* The handler resumes after save(): the broadcast, or the catch block.
CommentLikeEmit(t) ==
  /\ tasks[t].kind = "comment-like"
  /\ tasks[t].pc = "emit"
  /\ LET k == tasks[t]
         op == [NoOp EXCEPT !.name = "comment-like", !.conn = k.conn,
                   !.userId = k.userId, !.postId = k.postId,
                   !.commentId = k.commentId, !.found = k.found,
                   !.action = k.action, !.committed = k.committed,
                   !.after = k.after]
     IN IF k.err = "none"
          THEN /\ lastOp' = [op EXCEPT !.outcome = "broadcast"]
               /\ lastEmit' = {[BlankMsg EXCEPT !.to = d,
                                  !.ev = "comment-likes-updated",
                                  !.commentId = k.commentId, !.postId = k.postId,
                                  !.likes = Len(k.likes), !.action = k.action]
                               : d \in InRoom(k.postId)}
          ELSE /\ lastOp' = [op EXCEPT !.outcome = "error", !.err = k.err]
               /\ lastEmit' = {[BlankMsg EXCEPT !.to = d, !.ev = "comment-error",
                                 !.error = "Failed to update comment likes"]
                               : d \in Self(k.conn)}
  /\ tasks' = Release(t)
  /\ LikeCompletes(t, tasks[t].err)
  /\ UNCHANGED <<events, connVars, roomVars, dbVars>>

\* ------------------------------------------------- REST like endpoints
\* POST /posts/:id/like by authenticated user u: Post.findById and the
\* toggle, up to `await post.save()`.
RestPostLikeFind(t, u, p, dbFail) ==
  /\ u \in DOMAIN users
  /\ Accept(t)
  /\ LET op == [NoOp EXCEPT !.name = "rest-post-like", !.userId = u, !.postId = p]
     IN IF dbFail
          THEN /\ lastOp' = [op EXCEPT !.outcome = "500", !.err = "store"]
               /\ UNCHANGED <<tasks, likeHist>>
        ELSE IF p \notin DOMAIN posts
          THEN /\ lastOp' = [op EXCEPT !.outcome = "404", !.found = FALSE]
               /\ UNCHANGED <<tasks, likeHist>>
        ELSE LET e == ToggleLike(posts[p].likes, u)
             IN /\ LikeArrives(t, p, u, IF e.op = "push" THEN "like" ELSE "unlike",
                               posts[p].likes)
                /\ tasks' = [tasks EXCEPT ![t] =
                     [IdleTask EXCEPT !.kind = "rest-post-like", !.pc = "save",
                        !.userId = u, !.postId = p,
                        !.action = IF e.op = "push" THEN "like" ELSE "unlike",
                        !.likes = e.likes, !.op = e.op]]
                /\ lastOp' = Suspended(op.name)
  /\ lastEmit' = {}
  /\ UNCHANGED <<connVars, roomVars, dbVars>>

\* `await post.save()` runs and the response is sent.
RestPostLikeSave(t, dbFail) ==
  /\ tasks[t].kind = "rest-post-like"
  /\ tasks[t].pc = "save"
  /\ LET p == tasks[t].postId
         r == SaveLikes(posts[p].likes, TRUE, tasks[t], dbFail)
     IN /\ posts' = [posts EXCEPT ![p].likes = r.likes]
        /\ tasks' = [AfterSave(t, r, "idle") EXCEPT ![t] = IdleTask]
        /\ lastOp' = [NoOp EXCEPT !.name = "rest-post-like",
                        !.userId = tasks[t].userId, !.postId = p,
                        !.action = tasks[t].action,
                        !.outcome = IF r.err = "none" THEN "200" ELSE "500",
                        !.err = r.err,
                        !.likes = IF r.err = "none" THEN Len(tasks[t].likes) ELSE -1,
                        !.committed = Cardinality(LikeSet(r.likes))]
        /\ LikeCompletes(t, r.err)
  /\ lastEmit' = {}
  /\ UNCHANGED <<events, connVars, roomVars, users, comments, nextComment>>

\* POST /comments/:id/like by authenticated user u.
RestCommentLikeFind(t, u, k, dbFail) ==
  /\ u \in DOMAIN users
  /\ Accept(t)
  /\ LET op == [NoOp EXCEPT !.name = "rest-comment-like", !.userId = u,
                            !.commentId = k]
     IN IF dbFail
          THEN /\ lastOp' = [op EXCEPT !.outcome = "500", !.err = "store"]
               /\ UNCHANGED <<tasks, likeHist>>
        ELSE IF k \notin DOMAIN comments
          THEN /\ lastOp' = [op EXCEPT !.outcome = "404", !.found = FALSE]
               /\ UNCHANGED <<tasks, likeHist>>
        ELSE LET e == ToggleLike(comments[k].likes, u)
             IN /\ LikeArrives(t, k, u, IF e.op = "push" THEN "like" ELSE "unlike",
                               comments[k].likes)
                /\ tasks' = [tasks EXCEPT ![t] =
                     [IdleTask EXCEPT !.kind = "rest-comment-like", !.pc = "save",
                        !.userId = u, !.commentId = k,
                        !.action = IF e.op = "push" THEN "like" ELSE "unlike",
                        !.likes = e.likes, !.op = e.op]]
                /\ lastOp' = Suspended(op.name)
  /\ lastEmit' = {}
  /\ UNCHANGED <<connVars, roomVars, dbVars>>

\* `await comment.save()` runs and the response is sent.
RestCommentLikeSave(t, dbFail) ==
  /\ tasks[t].kind = "rest-comment-like"
  /\ tasks[t].pc = "save"
  /\ LET k == tasks[t].commentId
         present == k \in DOMAIN comments
         stored == IF present THEN comments[k].likes ELSE <<>>
         r == SaveLikes(stored, present, tasks[t], dbFail)
     IN /\ comments' = IF present THEN [comments EXCEPT ![k].likes = r.likes]
                                  ELSE comments
        /\ tasks' = [AfterSave(t, r, "idle") EXCEPT ![t] = IdleTask]
        /\ lastOp' = [NoOp EXCEPT !.name = "rest-comment-like",
                        !.userId = tasks[t].userId, !.commentId = k,
                        !.action = tasks[t].action,
                        !.outcome = IF r.err = "none" THEN "200" ELSE "500",
                        !.err = r.err,
                        !.likes = IF r.err = "none" THEN Len(tasks[t].likes) ELSE -1,
                        !.committed = Cardinality(LikeSet(r.likes))]
        /\ LikeCompletes(t, r.err)
  /\ lastEmit' = {}
  /\ UNCHANGED <<events, connVars, roomVars, users, posts, nextComment>>

\* ------------------------------------------------------ comment content
\* A body is a sequence of pieces: "a" and "b" are one visible character,
\* " " is one blank, "L" is a run of MaxLength visible characters.
MaxLength == 1000
Weight(piece) == IF piece = "L" THEN MaxLength ELSE 1

RECURSIVE StrLen(_)
StrLen(s) == IF s = <<>> THEN 0 ELSE Weight(Head(s)) + StrLen(Tail(s))

RECURSIVE TrimLeft(_)
TrimLeft(s) == IF s # <<>> /\ Head(s) = " " THEN TrimLeft(Tail(s)) ELSE s

RECURSIVE TrimRight(_)
TrimRight(s) ==
  IF s # <<>> /\ s[Len(s)] = " " THEN TrimRight(SubSeq(s, 1, Len(s) - 1)) ELSE s

\* the schema's `trim: true` setter
Trim(s) == TrimRight(TrimLeft(s))

\* bodies a client may send
Contents == {<<>>, <<" ">>, <<" ", "a">>, <<"b">>, <<"L", "a">>}

\* (variant: the schema without `required`)
ContentValidMaxOnly(stored) == StrLen(stored) <= MaxLength

\* commentSchema.content: required (a non-empty string), maxlength 1000.
\* The value checked is the one the trim setter stored.
ContentValid(stored) == stored # <<>> /\ StrLen(stored) <= MaxLength

\* --------------------------------------------------- new-comment
\* (variant: a handler that takes the author from the payload when given)
AuthorFromPayload(c, claimed) ==
  IF claimed # NoId THEN claimed ELSE identity[c].userId

\* `author: socket.userId`: an author field in the payload is never read
AuthorOf(c, claimed) == identity[c].userId

\* The event arrives, the document is built and `await comment.save()`
\* runs at the store: validation, then the insert.  claimed: the author
\* field a client may put into the payload (NoId: none).
NewCommentFrom(t, c, p, content, parent, claimed, dbFail) ==
  /\ connState[c] = "Active"
  /\ Accept(t)
  /\ nextComment < MaxComments
  /\ LET u == AuthorOf(c, claimed)
         body == Trim(content)
         err == IF ~ContentValid(body) THEN "validation"
                ELSE IF dbFail THEN "store" ELSE "none"
         good == err = "none"
         k == CommentId(nextComment + 1)
         refs == p \in DOMAIN posts /\ (parent = NoId \/ parent \in DOMAIN comments)
     IN /\ IF good
             THEN /\ comments' = [x \in DOMAIN comments \cup {k} |->
                        IF x = k
                          THEN [content |-> body, author |-> u, post |-> p,
                                parentComment |-> parent, likes |-> <<>>,
                                isEdited |-> FALSE]
                          ELSE comments[x]]
                  /\ nextComment' = nextComment + 1
             ELSE UNCHANGED <<comments, nextComment>>
        /\ tasks' = [tasks EXCEPT ![t] =
              [IdleTask EXCEPT !.kind = "new-comment", !.pc = "emit", !.conn = c,
                 !.userId = u, !.postId = p, !.content = body,
                 !.commentId = IF good THEN k ELSE NoId,
                 !.author = u, !.found = refs, !.err = err,
                 !.claimed = claimed,
                 !.after = IF good THEN Waiting(p) ELSE {}]]
        /\ lastOp' = Suspended("new-comment")
  /\ lastEmit' = {}
  /\ UNCHANGED <<likeHist, connVars, roomVars, users, posts>>

\* a new-comment whose payload has the declared fields only
NewCommentSave(t, c, p, content, parent, dbFail) ==
  NewCommentFrom(t, c, p, content, parent, NoId, dbFail)

\* (variant: a catch block that also calls socket.disconnect())
NewCommentEmitClosing(t, dbFail) ==
  /\ tasks[t].kind = "new-comment"
  /\ tasks[t].pc = "emit"
  /\ LET k == tasks[t]
         err == IF k.err = "none" /\ dbFail THEN "store" ELSE k.err
         op == [NoOp EXCEPT !.name = "new-comment", !.conn = k.conn,
                   !.userId = k.userId, !.postId = k.postId,
                   !.commentId = k.commentId, !.content = k.content,
                   !.found = k.found, !.err = err, !.after = k.after]
     IN IF err = "none"
          THEN /\ lastOp' = [op EXCEPT !.outcome = "broadcast"]
               /\ lastEmit' = {[BlankMsg EXCEPT !.to = d, !.ev = "comment-added",
                                  !.postId = k.postId, !.commentId = k.commentId,
                                  !.content = k.content, !.userId = k.author,
                                  !.username = users[k.author].username]
                               : d \in InRoom(k.postId)}
               /\ UNCHANGED <<connVars, roomVars>>
          ELSE /\ lastOp' = [op EXCEPT !.outcome = "error"]
               /\ lastEmit' = {[BlankMsg EXCEPT !.to = d, !.ev = "comment-error",
                                 !.error = "Failed to add comment"]
                               : d \in Self(k.conn)}
               /\ connState' = [connState EXCEPT ![k.conn] = "Closed"]
               /\ rooms' = [r \in RoomIds |-> rooms[r] \ {k.conn}]
               /\ sids' = [sids EXCEPT ![k.conn] = {}]
               /\ UNCHANGED <<cred, connError, identity>>
  /\ tasks' = Release(t)
  /\ UNCHANGED <<events, likeHist, dbVars>>

\* The handler resumes: after a resolved save, populate('author') runs and
\* comment-added goes to the room; a rejected save or populate lands in
\* the catch block.
NewCommentEmit(t, dbFail) ==
  /\ tasks[t].kind = "new-comment"
  /\ tasks[t].pc = "emit"
  /\ LET k == tasks[t]
         err == IF k.err = "none" /\ dbFail THEN "store" ELSE k.err
         op == [NoOp EXCEPT !.name = "new-comment", !.conn = k.conn,
                   !.userId = k.userId, !.postId = k.postId,
                   !.commentId = k.commentId, !.content = k.content,
                   !.found = k.found, !.err = err, !.after = k.after]
     IN IF err = "none"
          THEN /\ lastOp' = [op EXCEPT !.outcome = "broadcast"]
               /\ lastEmit' = {[BlankMsg EXCEPT !.to = d, !.ev = "comment-added",
                                  !.postId = k.postId, !.commentId = k.commentId,
                                  !.content = k.content, !.userId = k.author,
                                  !.username = users[k.author].username]
                               : d \in InRoom(k.postId)}
          ELSE /\ lastOp' = [op EXCEPT !.outcome = "error"]
               /\ lastEmit' = {[BlankMsg EXCEPT !.to = d, !.ev = "comment-error",
                                 !.error = "Failed to add comment"]
                               : d \in Self(k.conn)}
  /\ tasks' = Release(t)
  /\ UNCHANGED <<events, likeHist, connVars, roomVars, dbVars>>

\* --------------------------------------------------- update-comment
\* (variant: the update filters on the sender being the comment's author)
UpdateCommentExecOwned(t, c, k, content, p, dbFail) ==
  /\ connState[c] = "Active"
  /\ Accept(t)
  /\ LET u == identity[c].userId
         op == [NoOp EXCEPT !.name = "update-comment", !.conn = c, !.userId = u,
                   !.postId = p, !.commentId = k, !.content = content]
     IN IF dbFail
          THEN /\ tasks' = [tasks EXCEPT ![t] =
                     [IdleTask EXCEPT !.kind = "update-comment", !.pc = "emit",
                        !.conn = c, !.userId = u, !.postId = p, !.commentId = k,
                        !.found = k \in DOMAIN comments /\ p \in DOMAIN posts,
                        !.err = "store"]]
               /\ lastOp' = Suspended(op.name)
               /\ UNCHANGED comments
        ELSE IF k \notin DOMAIN comments \/ comments[k].author # u
          THEN /\ lastOp' = [op EXCEPT !.outcome = "notfound", !.found = FALSE]
               /\ UNCHANGED <<tasks, comments>>
        ELSE /\ comments' = [comments EXCEPT ![k].content = Trim(content),
                                             ![k].isEdited = TRUE]
             /\ tasks' = [tasks EXCEPT ![t] =
                   [IdleTask EXCEPT !.kind = "update-comment", !.pc = "emit",
                      !.conn = c, !.userId = u, !.postId = p, !.commentId = k,
                      !.content = Trim(content), !.author = comments[k].author,
                      !.found = p \in DOMAIN posts, !.after = Waiting(p)]]
             /\ lastOp' = Suspended(op.name)
  /\ lastEmit' = {}
  /\ UNCHANGED <<likeHist, connVars, roomVars, users, posts, nextComment>>

\* The event arrives and Comment.findByIdAndUpdate runs at the store: no
\* validators, no ownership check; the trim setter is applied to the value.
UpdateCommentExec(t, c, k, content, p, dbFail) ==
  /\ connState[c] = "Active"
  /\ Accept(t)
  /\ LET u == identity[c].userId
         op == [NoOp EXCEPT !.name = "update-comment", !.conn = c, !.userId = u,
                   !.postId = p, !.commentId = k, !.content = content]
     IN IF dbFail
          THEN /\ tasks' = [tasks EXCEPT ![t] =
                     [IdleTask EXCEPT !.kind = "update-comment", !.pc = "emit",
                        !.conn = c, !.userId = u, !.postId = p, !.commentId = k,
                        !.found = k \in DOMAIN comments /\ p \in DOMAIN posts,
                        !.err = "store"]]
               /\ lastOp' = Suspended(op.name)
               /\ UNCHANGED comments
        ELSE IF k \notin DOMAIN comments
          THEN /\ lastOp' = [op EXCEPT !.outcome = "notfound", !.found = FALSE]
               /\ UNCHANGED <<tasks, comments>>
        ELSE /\ comments' = [comments EXCEPT ![k].content = Trim(content),
                                             ![k].isEdited = TRUE]
             /\ tasks' = [tasks EXCEPT ![t] =
                   [IdleTask EXCEPT !.kind = "update-comment", !.pc = "emit",
                      !.conn = c, !.userId = u, !.postId = p, !.commentId = k,
                      !.content = Trim(content), !.author = comments[k].author,
                      !.found = p \in DOMAIN posts, !.after = Waiting(p)]]
             /\ lastOp' = Suspended(op.name)
  /\ lastEmit' = {}
  /\ UNCHANGED <<likeHist, connVars, roomVars, users, posts, nextComment>>

\* The handler resumes: populate('author'), then comment-updated to the
\* room named in the payload; a rejection lands in the catch block.
UpdateCommentEmit(t, dbFail) ==
  /\ tasks[t].kind = "update-comment"
  /\ tasks[t].pc = "emit"
  /\ LET k == tasks[t]
         err == IF k.err = "none" /\ dbFail THEN "store" ELSE k.err
         op == [NoOp EXCEPT !.name = "update-comment", !.conn = k.conn,
                   !.userId = k.userId, !.postId = k.postId,
                   !.commentId = k.commentId, !.content = k.content,
                   !.found = k.found, !.err = err, !.after = k.after]
     IN IF err = "none"
          THEN /\ lastOp' = [op EXCEPT !.outcome = "broadcast"]
               /\ lastEmit' = {[BlankMsg EXCEPT !.to = d, !.ev = "comment-updated",
                                  !.postId = k.postId, !.commentId = k.commentId,
                                  !.content = k.content, !.userId = k.author,
                                  !.username = users[k.author].username]
                               : d \in InRoom(k.postId)}
          ELSE /\ lastOp' = [op EXCEPT !.outcome = "error"]
               /\ lastEmit' = {[BlankMsg EXCEPT !.to = d, !.ev = "comment-error",
                                 !.error = "Failed to update comment"]
                               : d \in Self(k.conn)}
  /\ tasks' = Release(t)
  /\ UNCHANGED <<events, likeHist, connVars, roomVars, dbVars>>

\* --------------------------------------------------- delete-comment
\* The event arrives and Comment.findByIdAndDelete runs at the store; it
\* resolves (with null) when no such comment exists.
DeleteCommentExec(t, c, k, p, dbFail) ==
  /\ connState[c] = "Active"
  /\ Accept(t)
  /\ LET u == identity[c].userId
         there == k \in DOMAIN comments /\ p \in DOMAIN posts
     IN /\ comments' = IF dbFail THEN comments
                       ELSE [x \in DOMAIN comments \ {k} |-> comments[x]]
        /\ tasks' = [tasks EXCEPT ![t] =
              [IdleTask EXCEPT !.kind = "delete-comment", !.pc = "emit",
                 !.conn = c, !.userId = u, !.postId = p, !.commentId = k,
                 !.found = there,
                 !.err = IF dbFail THEN "store" ELSE "none",
                 !.after = IF dbFail THEN {} ELSE Waiting(p)]]
        /\ lastOp' = Suspended("delete-comment")
  /\ lastEmit' = {}
  /\ UNCHANGED <<likeHist, connVars, roomVars, users, posts, nextComment>>

\* The handler resumes: comment-deleted to the room named in the payload,
\* or the catch block.
DeleteCommentEmit(t) ==
  /\ tasks[t].kind = "delete-comment"
  /\ tasks[t].pc = "emit"
  /\ LET k == tasks[t]
         op == [NoOp EXCEPT !.name = "delete-comment", !.conn = k.conn,
                   !.userId = k.userId, !.postId = k.postId,
                   !.commentId = k.commentId, !.found = k.found, !.err = k.err,
                   !.after = k.after]
     IN IF k.err = "none"
          THEN /\ lastOp' = [op EXCEPT !.outcome = "broadcast"]
               /\ lastEmit' = {[BlankMsg EXCEPT !.to = d, !.ev = "comment-deleted",
                                  !.postId = k.postId, !.commentId = k.commentId]
                               : d \in InRoom(k.postId)}
          ELSE /\ lastOp' = [op EXCEPT !.outcome = "error"]
               /\ lastEmit' = {[BlankMsg EXCEPT !.to = d, !.ev = "comment-error",
                                 !.error = "Failed to delete comment"]
                               : d \in Self(k.conn)}
  /\ tasks' = Release(t)
  /\ UNCHANGED <<events, likeHist, connVars, roomVars, dbVars>>

\* --------------------------------------------------- private-message
\* The event arrives and User.findById(data.toUserId) runs at the store.
PrivateMessageFind(t, c, to, message, dbFail) ==
  /\ connState[c] = "Active"
  /\ Accept(t)
  /\ tasks' = [tasks EXCEPT ![t] =
        [IdleTask EXCEPT !.kind = "private-message", !.pc = "emit", !.conn = c,
           !.userId = identity[c].userId, !.author = to, !.content = message,
           !.found = to \in DOMAIN users,
           !.err = IF dbFail THEN "store" ELSE "none"]]
  /\ lastOp' = Suspended("private-message")
  /\ lastEmit' = {}
  /\ UNCHANGED <<likeHist, connVars, roomVars, dbVars>>

\* (variant: the lookup's result is not tested before the broadcast)
PrivateMessageEmitUnchecked(t) ==
  /\ tasks[t].kind = "private-message"
  /\ tasks[t].pc = "emit"
  /\ LET k == tasks[t]
         op == [NoOp EXCEPT !.name = "private-message", !.conn = k.conn,
                   !.userId = k.userId, !.content = k.content,
                   !.found = k.found, !.err = k.err, !.toUserId = k.author]
     IN IF k.err # "none"
          THEN /\ lastOp' = [op EXCEPT !.outcome = "error"]
               /\ lastEmit' = {[BlankMsg EXCEPT !.to = d, !.ev = "message-error",
                                 !.error = "Failed to send message"]
                               : d \in Self(k.conn)}
        ELSE IF FALSE
          THEN /\ lastOp' = [op EXCEPT !.outcome = "error"]
               /\ lastEmit' = {[BlankMsg EXCEPT !.to = d, !.ev = "message-error",
                                 !.error = "User not found"]
                               : d \in Self(k.conn)}
        ELSE /\ lastOp' = [op EXCEPT !.outcome = "broadcast"]
             /\ lastEmit' = {[BlankMsg EXCEPT !.to = d, !.ev = "private-message",
                                !.userId = k.userId,
                                !.username = identity[k.conn].username,
                                !.toUserId = k.author,
                                !.toUsername = IF k.found THEN users[k.author].username
                                                ELSE NoId,
                                !.content = k.content]
                             : d \in Connected}
  /\ tasks' = Release(t)
  /\ UNCHANGED <<events, likeHist, connVars, roomVars, dbVars>>

\* The handler resumes: message-error to the sender when the user does not
\* exist or the lookup rejected, otherwise private-message with io.emit, to
\* every connected socket.
PrivateMessageEmit(t) ==
  /\ tasks[t].kind = "private-message"
  /\ tasks[t].pc = "emit"
  /\ LET k == tasks[t]
         op == [NoOp EXCEPT !.name = "private-message", !.conn = k.conn,
                   !.userId = k.userId, !.content = k.content,
                   !.found = k.found, !.err = k.err, !.toUserId = k.author]
     IN IF k.err # "none"
          THEN /\ lastOp' = [op EXCEPT !.outcome = "error"]
               /\ lastEmit' = {[BlankMsg EXCEPT !.to = d, !.ev = "message-error",
                                 !.error = "Failed to send message"]
                               : d \in Self(k.conn)}
        ELSE IF ~k.found
          THEN /\ lastOp' = [op EXCEPT !.outcome = "error"]
               /\ lastEmit' = {[BlankMsg EXCEPT !.to = d, !.ev = "message-error",
                                 !.error = "User not found"]
                               : d \in Self(k.conn)}
        ELSE /\ lastOp' = [op EXCEPT !.outcome = "broadcast"]
             /\ lastEmit' = {[BlankMsg EXCEPT !.to = d, !.ev = "private-message",
                                !.userId = k.userId,
                                !.username = identity[k.conn].username,
                                !.toUserId = k.author,
                                !.toUsername = users[k.author].username,
                                !.content = k.content]
                             : d \in Connected}
  /\ tasks' = Release(t)
  /\ UNCHANGED <<events, likeHist, connVars, roomVars, dbVars>>

\* ------------------------------------------- comments over REST
\* (variant: any signed-in requester passes the ownership check)
OwnsSignedIn(u, author, role) == u \in DOMAIN users

\* resource.author.toString() === req.user._id.toString(), or the requester's
\* role is admin
Owns(u, author, role) == author = u \/ role = "admin"

\* Joi: content is a string that, trimmed, has 1 to 1000 characters
JoiContentValid(content) ==
  Trim(content) # <<>> /\ StrLen(Trim(content)) <= MaxLength

RestEdits == {"rest-comment-update", "rest-comment-delete"}

\* PUT /comments/:id by authenticated user u: authenticateToken loads the
\* user, requireOwnership loads the comment and compares, the handler
\* validates the body and sets content and isEdited on the loaded document;
\* up to `await comment.save()`.
RestCommentUpdateFind(t, u, k, content, dbFail) ==
  /\ u \in DOMAIN users
  /\ Accept(t)
  /\ LET op == [NoOp EXCEPT !.name = "rest-comment-update", !.userId = u,
                            !.commentId = k, !.content = content]
     IN IF dbFail
          THEN /\ lastOp' = [op EXCEPT !.outcome = "500", !.err = "store"]
               /\ UNCHANGED tasks
        ELSE IF k \notin DOMAIN comments
          THEN /\ lastOp' = [op EXCEPT !.outcome = "404", !.found = FALSE]
               /\ UNCHANGED tasks
        ELSE IF ~Owns(u, comments[k].author, users[u].role)
          THEN /\ lastOp' = [op EXCEPT !.outcome = "403"]
               /\ UNCHANGED tasks
        ELSE IF ~JoiContentValid(content)
          THEN /\ lastOp' = [op EXCEPT !.outcome = "400", !.err = "validation"]
               /\ UNCHANGED tasks
        ELSE /\ tasks' = [tasks EXCEPT ![t] =
                   [IdleTask EXCEPT !.kind = "rest-comment-update", !.pc = "save",
                      !.userId = u, !.commentId = k, !.content = Trim(content),
                      !.author = comments[k].author, !.role = users[u].role]]
             /\ lastOp' = Suspended(op.name)
  /\ lastEmit' = {}
  /\ UNCHANGED <<likeHist, connVars, roomVars, dbVars>>

\* `await comment.save()` sends the changed paths of the loaded document;
\* a document that is gone rejects the save. Then populate and the response.
RestCommentUpdateSave(t, dbFail) ==
  /\ tasks[t].kind = "rest-comment-update"
  /\ tasks[t].pc = "save"
  /\ LET k == tasks[t].commentId
         err == IF dbFail THEN "store"
                ELSE IF ~ContentValid(tasks[t].content) THEN "validation"
                ELSE IF k \notin DOMAIN comments THEN "gone"
                ELSE "none"
     IN /\ comments' = IF err = "none"
                         THEN [comments EXCEPT ![k].content = tasks[t].content,
                                               ![k].isEdited = TRUE]
                         ELSE comments
        /\ lastOp' = [NoOp EXCEPT !.name = "rest-comment-update",
                        !.userId = tasks[t].userId, !.commentId = k,
                        !.content = tasks[t].content, !.err = err,
                        !.outcome = IF err = "none" THEN "200" ELSE "500"]
  /\ tasks' = Release(t)
  /\ lastEmit' = {}
  /\ UNCHANGED <<events, likeHist, connVars, roomVars, users, posts, nextComment>>

\* DELETE /comments/:id by authenticated user u: Comment.findById and the
\* author-or-admin test; up to `await comment.remove()`.
RestCommentDeleteFind(t, u, k, dbFail) ==
  /\ u \in DOMAIN users
  /\ Accept(t)
  /\ LET op == [NoOp EXCEPT !.name = "rest-comment-delete", !.userId = u,
                            !.commentId = k]
     IN IF dbFail
          THEN /\ lastOp' = [op EXCEPT !.outcome = "500", !.err = "store"]
               /\ UNCHANGED tasks
        ELSE IF k \notin DOMAIN comments
          THEN /\ lastOp' = [op EXCEPT !.outcome = "404", !.found = FALSE]
               /\ UNCHANGED tasks
        ELSE IF ~Owns(u, comments[k].author, users[u].role)
          THEN /\ lastOp' = [op EXCEPT !.outcome = "403"]
               /\ UNCHANGED tasks
        ELSE /\ tasks' = [tasks EXCEPT ![t] =
                   [IdleTask EXCEPT !.kind = "rest-comment-delete", !.pc = "save",
                      !.userId = u, !.commentId = k,
                      !.author = comments[k].author, !.role = users[u].role]]
             /\ lastOp' = Suspended(op.name)
  /\ lastEmit' = {}
  /\ UNCHANGED <<likeHist, connVars, roomVars, dbVars>>

\* `await comment.remove()` runs (or throws, where the installed mongoose
\* has no Document.prototype.remove) and the response is sent.
RestCommentDeleteRemove(t, dbFail) ==
  /\ tasks[t].kind = "rest-comment-delete"
  /\ tasks[t].pc = "save"
  /\ LET k == tasks[t].commentId
     IN /\ comments' = IF dbFail THEN comments
                         ELSE [x \in DOMAIN comments \ {k} |-> comments[x]]
        /\ lastOp' = [NoOp EXCEPT !.name = "rest-comment-delete",
                        !.userId = tasks[t].userId, !.commentId = k,
                        !.err = IF dbFail THEN "store" ELSE "none",
                        !.outcome = IF dbFail THEN "500" ELSE "200"]
  /\ tasks' = Release(t)
  /\ lastEmit' = {}
  /\ UNCHANGED <<events, likeHist, connVars, roomVars, users, posts, nextComment>>

\* PATCH /users/:id/role by administrator a: requireRole(['admin']), not on
\* oneself, then User.findByIdAndUpdate(id, {role}).
RestSetRole(a, u, role) ==
  /\ a \in DOMAIN users
  /\ LET op == [NoOp EXCEPT !.name = "rest-set-role", !.userId = a,
                            !.toUserId = u, !.action = role]
     IN IF users[a].role # "admin"
          THEN /\ lastOp' = [op EXCEPT !.outcome = "403"]
               /\ UNCHANGED users
        ELSE IF role \notin Roles \/ u = a
          THEN /\ lastOp' = [op EXCEPT !.outcome = "400"]
               /\ UNCHANGED users
        ELSE IF u \notin DOMAIN users
          THEN /\ lastOp' = [op EXCEPT !.outcome = "404", !.found = FALSE]
               /\ UNCHANGED users
        ELSE /\ users' = [users EXCEPT ![u].role = role]
             /\ lastOp' = [op EXCEPT !.outcome = "200"]
  /\ lastEmit' = {}
  /\ UNCHANGED <<events, likeHist, connVars, roomVars, posts, comments,
                 nextComment, tasks>>

\* ------------------------------------------- client (WebSocketService)
\* names with a listener of their own in setupSocketListeners
DedicatedNames ==
  {"new-comment", "comment-updated", "comment-deleted", "post-liked",
   "comment-liked", "user-typing", "user-online", "user-offline",
   "notification"}

\* names handleGenericEvent drops: those starting with connect, disconnect
\* or reconnect, and 'error'
InternalNames ==
  {"connect", "connect_error", "disconnect", "reconnect", "reconnect_error",
   "reconnect_failed", "error"}

\* handleEvent(event, data): one value on events$ (and one on messages$)
HandleEvent(ev) == <<ev>>

\* handleGenericEvent(eventName, args), called by the onAny listener
HandleGenericEvent(ev) == IF ev \in InternalNames THEN <<>> ELSE HandleEvent(ev)

\* What events$ emits when the server event ev arrives: the socket calls
\* the onAny listeners, then the listeners registered for the name.
Dispatch(ev) ==
  HandleGenericEvent(ev) \o (IF ev \in DedicatedNames THEN HandleEvent(ev) ELSE <<>>)

\* ------------------------------------------------------ specifications
Actions == {"like", "unlike"}
Parents == {NoId} \cup CommentIds

ConnNext ==
  \/ \E c \in Conns, tok \in Tokens, f \in BOOLEAN : Handshake(c, tok, f)
  \/ \E c \in Conns, p \in PostIds : JoinPost(c, p)
  \/ \E c \in Conns, p \in PostIds : LeavePost(c, p)
  \/ \E c \in Conns : Disconnect(c)

\* like events from sockets cs on posts ps and comments ks, naming rooms rs;
\* fs: whether the store may fail
WsLikeArrives(cs, ps, ks, rs, fs) ==
  \/ \E t \in TaskIds, c \in cs, p \in ps, a \in Actions, f \in fs :
       PostLikeFind(t, c, p, a, f)
  \/ \E t \in TaskIds, c \in cs, k \in ks, p \in rs, a \in Actions, f \in fs :
       CommentLikeFind(t, c, k, p, a, f)

\* the suspended like handlers go on
WsLikeResumes(fs) ==
  \/ \E t \in TaskIds, f \in fs : PostLikeSave(t, f)
  \/ \E t \in TaskIds : PostLikeEmit(t)
  \/ \E t \in TaskIds, f \in fs, g \in BOOLEAN : CommentLikeSave(t, f, g)
  \/ \E t \in TaskIds : CommentLikeEmit(t)

WsLike(cs, ps, ks, rs, fs) == WsLikeArrives(cs, ps, ks, rs, fs) \/ WsLikeResumes(fs)

\* REST like calls by users us on posts ps and comments ks
RestLike(us, ps, ks, fs) ==
  \/ \E t \in TaskIds, u \in us, p \in ps, f \in fs : RestPostLikeFind(t, u, p, f)
  \/ \E t \in TaskIds, f \in fs : RestPostLikeSave(t, f)
  \/ \E t \in TaskIds, u \in us, k \in ks, f \in fs : RestCommentLikeFind(t, u, k, f)
  \/ \E t \in TaskIds, f \in fs : RestCommentLikeSave(t, f)

LikeNext ==
  \/ WsLike(Conns, PostIds, CommentIds, PostIds, BOOLEAN)
  \/ RestLike(UserIds, PostIds, CommentIds, BOOLEAN)

\* new-comment events from sockets cs on posts ps with bodies bs and
\* parents pars; fs: whether the store may fail
WsNewComment(cs, ps, bs, pars, fs) ==
  \/ \E t \in TaskIds, c \in cs, p \in ps, b \in bs, par \in pars, f \in fs :
       NewCommentSave(t, c, p, b, par, f)
  \/ \E t \in TaskIds, f \in fs : NewCommentEmit(t, f)

\* update-comment events from sockets cs on comments ks naming posts ps
WsUpdateComment(cs, ps, ks, bs, fs) ==
  \/ \E t \in TaskIds, c \in cs, k \in ks, b \in bs, p \in ps, f \in fs :
       UpdateCommentExec(t, c, k, b, p, f)
  \/ \E t \in TaskIds, f \in fs : UpdateCommentEmit(t, f)

\* delete-comment events from sockets cs on comments ks naming posts ps
WsDeleteComment(cs, ps, ks, fs) ==
  \/ \E t \in TaskIds, c \in cs, k \in ks, p \in ps, f \in fs :
       DeleteCommentExec(t, c, k, p, f)
  \/ \E t \in TaskIds : DeleteCommentEmit(t)

WsComment(cs, ps, ks, bs, pars, fs) ==
  \/ WsNewComment(cs, ps, bs, pars, fs)
  \/ WsUpdateComment(cs, ps, ks, bs, fs)
  \/ WsDeleteComment(cs, ps, ks, fs)

CommentNext == WsComment(Conns, PostIds, CommentIds, Contents, Parents, BOOLEAN)

\* private-message events from sockets cs to users us with bodies bs
WsPrivateMessage(cs, us, bs, fs) ==
  \/ \E t \in TaskIds, c \in cs, u \in us, b \in bs, f \in fs :
       PrivateMessageFind(t, c, u, b, f)
  \/ \E t \in TaskIds : PrivateMessageEmit(t)

MessageNext ==
  WsPrivateMessage(Conns, UserIds \cup {GhostUser}, Contents, BOOLEAN)

TypingNext ==
  \/ \E c \in Conns, p \in PostIds, ty \in TypingTypes : TypingStart(c, p, ty)
  \/ \E c \in Conns, p \in PostIds : TypingStop(c, p)

PresenceNext ==
  \/ \E c \in Conns : UserOnline(c)
  \/ \E c \in Conns, n \in InboundNames : Unhandled(c, n)

\* REST comment edits by users us on comments ks with bodies bs
RestComment(us, ks, bs, fs) ==
  \/ \E t \in TaskIds, u \in us, k \in ks, b \in bs, f \in fs :
       RestCommentUpdateFind(t, u, k, b, f)
  \/ \E t \in TaskIds, f \in fs : RestCommentUpdateSave(t, f)
  \/ \E t \in TaskIds, u \in us, k \in ks, f \in fs :
       RestCommentDeleteFind(t, u, k, f)
  \/ \E t \in TaskIds, f \in fs : RestCommentDeleteRemove(t, f)

RestNext ==
  \/ RestComment(UserIds, CommentIds \cup {MissingComment}, Contents, BOOLEAN)
  \/ \E a \in UserIds, u \in UserIds \cup {GhostUser}, r \in Roles :
       RestSetRole(a, u, r)

Next ==
  \/ ConnNext
  \/ LikeNext
  \/ CommentNext
  \/ MessageNext
  \/ TypingNext
  \/ PresenceNext
  \/ RestNext

Spec == Init /\ [][Next]_vars

\* at most one handler is suspended on the store at a time
OneAtATime == \A t \in TaskIds : t > 1 => tasks'[t].kind = "idle"

\* connections and rooms only
SpecConn == Init /\ [][ConnNext]_vars

\* c1 and c3 sign in as u1, c2 as u2
UserOf == [c \in Conns |-> IF c = "c2" THEN "u2" ELSE "u1"]

\* One user on two channels: u1 is signed in on socket c1, which may watch
\* p1, and also calls the REST like endpoints; the likes are for post p1 and
\* comment k1.
LikeEnv == Handshake("c1", Jwt("u1"), FALSE) \/ JoinPost("c1", "p1")

LikeTraffic ==
  \/ WsLike({"c1"}, {"p1"}, {"k1"}, {"p1"}, {FALSE})
  \/ RestLike({"u1"}, {"p1"}, {"k1"}, {FALSE})

SpecLike == Init /\ [][LikeEnv \/ LikeTraffic]_vars

\* Two users: c1 is u1 and c2 is u2, both may watch p1; each client waits
\* for the outcome of its like before it sends the next one.
Waits(c) == \A s \in TaskIds : tasks[s].conn # c

TwoUsersEnv ==
  \/ \E c \in {"c1", "c2"} : Handshake(c, Jwt(UserOf[c]), FALSE)
  \/ \E c \in {"c1", "c2"} : JoinPost(c, "p1")

TwoUsersTraffic ==
  \/ \E c \in {"c1", "c2"} :
       Waits(c) /\ WsLikeArrives({c}, {"p1"}, {"k1"}, {"p1"}, {FALSE})
  \/ WsLikeResumes({FALSE})

SpecTwoUsers == Init /\ [][TwoUsersEnv \/ TwoUsersTraffic]_vars

\* New comments: three sockets (c1 and c3 are u1, c2 is u2); c1 and c3 may
\* watch p1 and c2 may watch p2, c1 may leave and c1 and c3 may disconnect;
\* c1 and c2 post comments on either post, one at a time, and the store may
\* fail.
RoomOf == [c \in Conns |-> IF c = "c2" THEN "p2" ELSE "p1"]

CommentEnv ==
  \/ \E c \in Conns : Handshake(c, Jwt(UserOf[c]), FALSE)
  \/ \E c \in Conns : JoinPost(c, RoomOf[c])
  \/ LeavePost("c1", "p1")
  \/ \E c \in {"c1", "c3"} : Disconnect(c)

NewBodies == {<<>>, <<" ">>, <<" ", "a">>, <<"L", "a">>}

NewCommentTraffic ==
  WsNewComment({"c1", "c2"}, PostIds, NewBodies, {NoId}, BOOLEAN) /\ OneAtATime

SpecNewComment == Init /\ [][CommentEnv \/ NewCommentTraffic]_vars

\* Mutations that may fail: c1 (u1) sends every mutation event and private
\* messages, one at a time, naming entities that exist (p1, k1, u2) and
\* entities that do not (p2, k0, u9), while the store may reject any
\* operation; c2 (u2) may watch p1.
FailEnv ==
  \/ \E c \in {"c1", "c2"} : Handshake(c, Jwt(UserOf[c]), FALSE)
  \/ JoinPost("c2", "p1")

FailTraffic ==
  \/ WsLike({"c1"}, PostIds, {"k1", MissingComment}, {"p1"}, BOOLEAN)
  \/ WsComment({"c1"}, PostIds, {"k1", MissingComment}, {<<>>, <<"b">>},
               {NoId}, BOOLEAN)
  \/ WsPrivateMessage({"c1"}, {"u2", GhostUser}, {<<"b">>}, BOOLEAN)

SpecFail == Init /\ [][FailEnv \/ (FailTraffic /\ OneAtATime)]_vars

\* Handlers that fail: c1 (u1), which may watch and leave p1, sends every
\* mutation event, one at a time: likes on p1 and k1 while the store may
\* reject any operation, comments with an empty body, updates of k1 and of
\* the missing k0, deletions of k0; c2 (u2) may watch p1.
CatchEnv ==
  \/ \E c \in {"c1", "c2"} : Handshake(c, Jwt(UserOf[c]), FALSE)
  \/ JoinPost("c1", "p1")
  \/ LeavePost("c1", "p1")
  \/ JoinPost("c2", "p1")

CatchTraffic ==
  \/ WsLike({"c1"}, {"p1"}, {"k1"}, {"p1"}, BOOLEAN)
  \/ WsNewComment({"c1"}, {"p1"}, {<<>>}, {NoId}, BOOLEAN)
  \/ WsUpdateComment({"c1"}, {"p1"}, {"k1", MissingComment}, {<<"b">>}, BOOLEAN)
  \/ WsDeleteComment({"c1"}, {"p1"}, {MissingComment}, BOOLEAN)

SpecCatch == Init /\ [][CatchEnv \/ (CatchTraffic /\ OneAtATime)]_vars

\* Disconnections: the three sockets sign in and may disconnect at any
\* moment; c1 and c2 may watch either room and post comments on either
\* post, one at a time.
DropEnv ==
  \/ \E c \in Conns : Handshake(c, Jwt(UserOf[c]), FALSE)
  \/ \E c \in {"c1", "c2"}, p \in PostIds : JoinPost(c, p)
  \/ \E c \in Conns : Disconnect(c)

DropTraffic ==
  WsNewComment({"c1", "c2"}, PostIds, {<<"b">>}, {NoId}, {FALSE}) /\ OneAtATime

SpecDrop == Init /\ [][DropEnv \/ DropTraffic]_vars

\* Typing indicators: the three sockets sign in, watch and leave either
\* room, disconnect, and send typing-start / typing-stop for either post.
TypingEnv ==
  \/ \E c \in Conns : Handshake(c, Jwt(UserOf[c]), FALSE)
  \/ \E c \in Conns, p \in PostIds : JoinPost(c, p)
  \/ \E c \in Conns, p \in PostIds : LeavePost(c, p)
  \/ \E c \in Conns : Disconnect(c)

SpecTyping == Init /\ [][TypingEnv \/ TypingNext]_vars

\* Comment creation: c1 (u1) and c2 (u2) post comments, one at a time, on
\* the existing post p1 and the missing post p2, as replies to the existing
\* comment k1, to the missing k0 or to nothing, with or without an author
\* field in the payload; c2 may watch p1.
CreateEnv ==
  \/ \E c \in {"c1", "c2"} : Handshake(c, Jwt(UserOf[c]), FALSE)
  \/ JoinPost("c2", "p1")

CreateTraffic ==
  \/ \E t \in TaskIds, c \in {"c1", "c2"}, p \in PostIds,
        par \in {NoId, "k1", MissingComment}, a \in {NoId} \cup UserIds :
       NewCommentFrom(t, c, p, <<"b">>, par, a, FALSE) /\ OneAtATime
  \/ \E t \in TaskIds : NewCommentEmit(t, FALSE)

SpecCreate == Init /\ [][CreateEnv \/ CreateTraffic]_vars

\* Interleaved mutations on one post: c1 (u1) sends comments and likes for
\* p1 without waiting for the outcome of the previous one; c2 (u2) may
\* watch p1.
OrderEnv ==
  \/ \E c \in {"c1", "c2"} : Handshake(c, Jwt(UserOf[c]), FALSE)
  \/ JoinPost("c2", "p1")

OrderTraffic ==
  \/ WsNewComment({"c1"}, {"p1"}, {<<"b">>}, {NoId}, {FALSE})
  \/ WsLike({"c1"}, {"p1"}, {"k1"}, {"p1"}, {FALSE})

SpecOrder == Init /\ [][OrderEnv \/ OrderTraffic]_vars

\* Disconnections in the middle of a handler: c1 (u1) and c2 (u2) sign in,
\* may watch p1 and may disconnect at any moment; c1 posts comments on p1
\* and likes p1, one handler at a time, and the store answers every
\* operation. The event loop runs the continuation of every answered
\* await: weak fairness on the resumption steps.
CancelEnv ==
  \/ \E c \in {"c1", "c2"} : Handshake(c, Jwt(UserOf[c]), FALSE)
  \/ \E c \in {"c1", "c2"} : JoinPost(c, "p1")
  \/ \E c \in {"c1", "c2"} : Disconnect(c)

CancelTraffic ==
  \/ WsNewComment({"c1"}, {"p1"}, {<<"b">>}, {NoId}, {FALSE})
  \/ \E t \in TaskIds, a \in Actions : PostLikeFind(t, "c1", "p1", a, FALSE)
  \/ \E t \in TaskIds : PostLikeSave(t, FALSE)
  \/ \E t \in TaskIds : PostLikeEmit(t)

CancelResumes ==
  \A t \in TaskIds :
    /\ WF_vars(NewCommentEmit(t, FALSE))
    /\ WF_vars(PostLikeSave(t, FALSE))
    /\ WF_vars(PostLikeEmit(t))

SpecCancel ==
  /\ Init
  /\ [][CancelEnv \/ (CancelTraffic /\ OneAtATime)]_vars
  /\ CancelResumes

\* Confirmations: c1 (u1) and c2 (u2) sign in and may watch p1, c1 may
\* leave it; c1 sends every mutation event for p1 and its comment k1, one at
\* a time, and the store answers every operation.
ConfirmEnv ==
  \/ \E c \in {"c1", "c2"} : Handshake(c, Jwt(UserOf[c]), FALSE)
  \/ \E c \in {"c1", "c2"} : JoinPost(c, "p1")
  \/ LeavePost("c1", "p1")

ConfirmTraffic ==
  \/ WsLike({"c1"}, {"p1"}, {"k1"}, {"p1"}, {FALSE})
  \/ WsComment({"c1"}, {"p1"}, {"k1"}, {<<"b">>}, {NoId}, {FALSE})

SpecConfirm == Init /\ [][ConfirmEnv \/ (ConfirmTraffic /\ OneAtATime)]_vars

\* Global signals: the three sockets sign in (c1 and c3 as u1, c2 as u2),
\* c2 may watch p1, c1 and c3 may disconnect; any socket announces its
\* presence, and c1 and c2 send private messages, one at a time, to u2 and
\* to the missing user u9 while the lookup may fail.
SignalEnv ==
  \/ \E c \in Conns : Handshake(c, Jwt(UserOf[c]), FALSE)
  \/ JoinPost("c2", "p1")
  \/ \E c \in {"c1", "c3"} : Disconnect(c)

SignalTraffic ==
  \/ \E c \in Conns : UserOnline(c)
  \/ WsPrivateMessage({"c1", "c2"}, {"u2", GhostUser}, {<<"b">>}, BOOLEAN)

SpecSignal == Init /\ [][SignalEnv \/ (SignalTraffic /\ OneAtATime)]_vars

\* Ownership: administrators change roles; u1 and u2 edit and delete the
\* comment k1 of u1 (and the missing k0) over REST with an empty or a valid
\* body while the store may fail; c1 (u1) and c2 (u2) sign in, c1 may watch
\* p1, and both send update-comment for k1; one handler at a time.
OwnerEnv ==
  \/ \E c \in {"c1", "c2"} : Handshake(c, Jwt(UserOf[c]), FALSE)
  \/ JoinPost("c1", "p1")
  \/ \E a \in UserIds, u \in UserIds, r \in {"user", "admin"} : RestSetRole(a, u, r)

OwnerTraffic ==
  \/ RestComment(UserIds, {"k1", MissingComment}, {<<>>, <<"b">>}, BOOLEAN)
  \/ WsUpdateComment({"c1", "c2"}, {"p1"}, {"k1"}, {<<"b">>}, {FALSE})

SpecOwner == Init /\ [][OwnerEnv \/ (OwnerTraffic /\ OneAtATime)]_vars

\* The event router: c1 connects as u1 and c2 with any credential; they
\* watch and leave p1 and disconnect; a connected socket sends events with
\* and without a listener: presence, typing-stop, unknown names, and c1
\* likes p1, one like at a time.
RouterEnv ==
  \/ Handshake("c1", Jwt("u1"), FALSE)
  \/ \E tok \in Tokens, f \in BOOLEAN : Handshake("c2", tok, f)
  \/ \E c \in {"c1", "c2"} : JoinPost(c, "p1")
  \/ \E c \in {"c1", "c2"} : LeavePost(c, "p1")
  \/ \E c \in {"c1", "c2"} : Disconnect(c)

RouterTraffic ==
  \/ \E c \in {"c1", "c2"}, n \in InboundNames : Unhandled(c, n)
  \/ \E c \in {"c1", "c2"} : UserOnline(c)
  \/ \E c \in {"c1", "c2"} : TypingStop(c, "p1")
  \/ \E t \in TaskIds : PostLikeFind(t, "c1", "p1", "like", FALSE)
  \/ \E t \in TaskIds : PostLikeSave(t, FALSE)
  \/ \E t \in TaskIds : PostLikeEmit(t)

SpecRouter == Init /\ [][RouterEnv \/ (RouterTraffic /\ OneAtATime)]_vars

\* Likes of two users with nobody watching: c1 is u1 and c2 is u2; each
\* likes and unlikes p1 and k1 and waits for the outcome of its like before
\* it sends the next one, so that one like of each user can be in flight.
FrameEnv == \E c \in {"c1", "c2"} : Handshake(c, Jwt(UserOf[c]), FALSE)

SpecFrame == Init /\ [][FrameEnv \/ TwoUsersTraffic]_vars

\* ================================================================ claims

\* C1: room membership is bidirectionally consistent: after every join-post,
\* leave-post and disconnect, a connection is in a room's member set if and
\* only if the room is in the connection's own membership set.
C1_MembershipConsistent ==
  \A c \in Conns, r \in RoomIds : c \in rooms[r] <=> r \in sids[c]

\* a socket has just left a room while it and another socket are still
\* members of rooms
C1_Witness ==
  /\ lastOp.name = "leave-post"
  /\ sids[lastOp.conn] # {}
  /\ \E d \in Conns \ {lastOp.conn} : sids[d] # {}

\* a credential that resolves to an existing user
Resolves(tok) == tok.kind = "jwt" /\ tok.userId \in DOMAIN users

\* the connection carries the identity of an existing user
Bound(c) ==
  /\ identity[c].userId \in DOMAIN users
  /\ identity[c].username = users[identity[c].userId].username

\* events only a connected socket's listeners handle
HandlerNames ==
  {"join-post", "leave-post", "new-comment", "update-comment", "delete-comment",
   "post-like", "comment-like", "private-message"}

\* C3: a connection whose credential is missing, invalid or resolves to no
\* user is Closed with an authentication error, was never given an identity
\* and is in no room; every connection that is Active, that a handler ran
\* for, or that a suspended handler belongs to, is bound to the identity of
\* an existing user.
C3_AuthenticateOrReject ==
  /\ \A c \in Conns :
       /\ (cred[c] # Unset /\ ~Resolves(cred[c])) =>
            /\ connState[c] = "Closed"
            /\ connError[c] \in {"Authentication error", "User not found"}
            /\ identity[c] = NoIdentity
            /\ sids[c] = {}
       /\ connState[c] = "Active" => Bound(c) /\ Resolves(cred[c])
       /\ sids[c] # {} => Bound(c)
  /\ lastOp.name \in HandlerNames => Bound(lastOp.conn)
  /\ \A t \in TaskIds : tasks[t].conn # NoId => Bound(tasks[t].conn)

\* a token naming a user that does not exist was refused while another
\* socket, properly signed in, has just joined a room
C3_Witness ==
  /\ \E c \in Conns : cred[c] = Jwt(GhostUser) /\ connState[c] = "Closed"
                       /\ connError[c] = "User not found"
  /\ \E c \in Conns : cred[c] = BadToken /\ connState[c] = "Closed"
  /\ lastOp.name = "join-post"

\* the frame a member receives for comment k as it is now stored
CommentAdded(d, k) ==
  [BlankMsg EXCEPT !.to = d, !.ev = "comment-added", !.postId = comments[k].post,
     !.commentId = k, !.content = comments[k].content,
     !.userId = comments[k].author,
     !.username = users[comments[k].author].username]

\* the last step completed a new-comment handler
NewCommentDone ==
  lastOp.name = "new-comment" /\ lastOp.outcome \in {"broadcast", "error"}

\* C2: when a new-comment with a valid body for post P completes and the
\* store did not fail, the comment is persisted under P and exactly one
\* comment-added frame carrying it goes to each connection that is a member
\* of room(P), and to no connection outside the room.
C2_RoomScopedDelivery ==
  (NewCommentDone /\ ContentValid(lastOp.content) /\ lastOp.err # "store") =>
    /\ lastOp.outcome = "broadcast"
    /\ lastOp.commentId \in DOMAIN comments
    /\ comments[lastOp.commentId].post = lastOp.postId
    /\ lastEmit = {CommentAdded(d, lastOp.commentId) : d \in rooms[Room(lastOp.postId)]}

\* c2, not watching p1, has commented on p1: a member of room(p1) received
\* the frame while c2 and another connected socket outside the room did not
C2_Witness ==
  /\ NewCommentDone /\ lastOp.outcome = "broadcast"
  /\ lastOp.postId = "p1"
  /\ \E m \in lastEmit : m.to # lastOp.conn
  /\ lastOp.conn \notin rooms[Room("p1")]
  /\ \E d \in Connected \ {lastOp.conn} : d \notin rooms[Room("p1")]

\* the frame the catch block of new-comment sends
AddError(d) ==
  [BlankMsg EXCEPT !.to = d, !.ev = "comment-error",
     !.error = "Failed to add comment"]

\* a new-comment whose body is empty once trimmed starts in slot t
EmptyCommentArrives(t) ==
  /\ tasks[t].kind = "idle"
  /\ tasks'[t].kind = "new-comment"
  /\ tasks'[t].content = <<>>

\* C8: a new-comment whose body is empty persists nothing, and when it
\* completes the only frame sent is one comment-error to the sender (if still
\* connected); no comment-added goes to anyone.
C8_EmptyContentRejected ==
  /\ [](NewCommentDone /\ lastOp.content = <<>> =>
          /\ lastOp.outcome = "error"
          /\ lastOp.commentId = NoId
          /\ lastEmit \subseteq {AddError(lastOp.conn)}
          /\ connState[lastOp.conn] = "Active" => lastEmit = {AddError(lastOp.conn)})
  /\ [][\A t \in TaskIds : EmptyCommentArrives(t) =>
          comments' = comments /\ nextComment' = nextComment]_vars

\* an empty comment on p2 was rejected: the sender, itself a member of
\* room(p2), got the error frame and nothing was added to the store
C8_Witness ==
  /\ NewCommentDone /\ lastOp.content = <<>>
  /\ lastOp.postId = "p2"
  /\ lastOp.conn \in rooms[Room("p2")]
  /\ lastEmit = {AddError(lastOp.conn)}
  /\ DOMAIN comments = DOMAIN SeedComments

\* the like array stored for entity e
StoredLikes(e) ==
  IF e \in DOMAIN posts THEN posts[e].likes
  ELSE IF e \in DOMAIN comments THEN comments[e].likes
  ELSE <<>>

\* C4: whenever no like handler is in flight on a post or comment, the size
\* of its persisted like set equals the number of identities whose last
\* like/unlike request on it was "like", however the handlers of distinct
\* identities interleaved between their read and their write.
C4_NoLostUpdate ==
  \A e \in DOMAIN posts \cup DOMAIN comments :
    ~Busy(e) =>
      Cardinality(LikeSet(StoredLikes(e)))
        = Cardinality({u \in UserIds : lastAction[e][u] = "like"})

\* C5: each identity appears at most once in the like array of every post
\* and of every comment.
C5_AtMostOnce ==
  \A e \in DOMAIN posts \cup DOMAIN comments :
    Len(StoredLikes(e)) = Cardinality(LikeSet(StoredLikes(e)))

LikesUpdated == {"post-likes-updated", "comment-likes-updated"}

\* C6: the likes value of every post-likes-updated and comment-likes-updated
\* frame equals the cardinality of the entity's persisted like set at the
\* moment the handler's save was committed.
C6_BroadcastIsCardinality ==
  \A m \in lastEmit : m.ev \in LikesUpdated => m.likes = lastOp.committed

\* C7: when an identity toggles its like on an entity twice in a row (like
\* then unlike, or unlike then like) and nothing else touches the entity in
\* between, the persisted like set has its original members and its original
\* count again.
C7_ToggleTwiceRestores ==
  toggle.stage = 4 =>
    /\ LikeSet(StoredLikes(toggle.target)) = LikeSet(toggle.orig)
    /\ Len(StoredLikes(toggle.target)) = Len(toggle.orig)

\* the error event each handler reports with
ScopedError ==
  [n \in {"update-comment", "delete-comment", "post-like", "comment-like",
          "private-message"} |->
     IF n = "post-like" THEN "post-error"
     ELSE IF n = "private-message" THEN "message-error"
     ELSE "comment-error"]

\* the last step completed a handler
Completed == lastOp.name # NoId /\ lastOp.outcome # "suspended"

\* C9: whenever update-comment, delete-comment, post-like, comment-like or
\* private-message completes for a request naming a post, comment or user
\* that does not exist, the sender (if still connected) receives the
\* handler's scoped error event.
C9_NotFoundReported ==
  (/\ Completed
   /\ lastOp.name \in DOMAIN ScopedError
   /\ ~lastOp.found
   /\ connState[lastOp.conn] = "Active") =>
    \E m \in lastEmit : m.to = lastOp.conn /\ m.ev = ScopedError[lastOp.name]

MutationNames ==
  {"new-comment", "update-comment", "delete-comment", "post-like", "comment-like"}

\* C10: when a mutation handler completes for a request whose validation
\* failed, whose referenced entity is missing or whose persistence operation
\* threw, nothing but an error event to the sender is delivered: no room
\* broadcast, and nothing to any other connection.
C10_NoBroadcastOnFailure ==
  (/\ Completed
   /\ lastOp.name \in MutationNames
   /\ (~lastOp.found \/ lastOp.err # "none")) =>
    \A m \in lastEmit :
      m.to = lastOp.conn /\ m.ev \in {"comment-error", "post-error"}

\* the last step completed a mutation handler whose request failed
MutationFailed ==
  /\ Completed
  /\ lastOp.name \in MutationNames
  /\ (lastOp.err # "none" \/ ~lastOp.found)

\* C11: the step in which a mutation handler fails changes no connection's
\* state, identity or room membership and no suspended handler of another
\* connection; after it the failing connection is still Active and its
\* join-post, leave-post and mutation listeners still accept events.
C11_FailureIsContained ==
  /\ [][MutationFailed' =>
          /\ connState' = connState
          /\ identity' = identity
          /\ rooms' = rooms /\ sids' = sids
          /\ \A t \in TaskIds :
               tasks[t].conn # lastOp'.conn => tasks'[t] = tasks[t]]_vars
  /\ [](MutationFailed =>
          /\ connState[lastOp.conn] = "Active"
          /\ \A p \in PostIds :
               /\ ENABLED JoinPost(lastOp.conn, p)
               /\ ENABLED LeavePost(lastOp.conn, p)
               /\ (events < MaxEvents /\ \E t \in TaskIds : Idle(t)) =>
                    \E t \in TaskIds :
                      ENABLED PostLikeFind(t, lastOp.conn, p, "like", FALSE))

\* c1's handler has just failed while c1 and c2 are both watching p1
C11_Witness ==
  /\ MutationFailed
  /\ lastOp.outcome = "error"
  /\ rooms[Room("p1")] = {"c1", "c2"}

\* the frame the 'disconnect' listener of c sends to d
Offline(d, c) ==
  [BlankMsg EXCEPT !.to = d, !.ev = "user-status", !.userId = identity[c].userId,
     !.username = identity[c].username, !.status = "offline"]

\* C12: a connection that has disconnected is a member of no room and is
\* delivered nothing, whatever is broadcast afterwards; the step in which it
\* disconnects delivers user-status offline with its identity to every
\* remaining connection, and to nobody else.
C12_DisconnectDropsMembership ==
  /\ \A c \in Conns :
       connState[c] = "Closed" =>
         /\ sids[c] = {}
         /\ \A r \in RoomIds : c \notin rooms[r]
         /\ \A m \in lastEmit : m.to # c
  /\ lastOp.name = "disconnect" =>
       lastEmit = {Offline(d, lastOp.conn) : d \in Connected}

\* a member of rooms p1 and p2 has just disconnected and the two remaining
\* connections are told
C12_Witness ==
  /\ lastOp.name = "disconnect"
  /\ lastOp.left = RoomIds
  /\ Cardinality(lastEmit) = Cardinality(Conns) - 1

\* the frame typing-start / typing-stop of the last step sends to d
TypingFrame(d) ==
  [BlankMsg EXCEPT !.to = d,
     !.ev = IF lastOp.name = "typing-start" THEN "user-typing"
            ELSE "user-stopped-typing",
     !.userId = identity[lastOp.conn].userId,
     !.username = identity[lastOp.conn].username,
     !.type = IF lastOp.name = "typing-start" THEN lastOp.action ELSE NoId]

\* C13: typing-start and typing-stop sent by A for post P deliver
\* user-typing / user-stopped-typing with A's identity to exactly the current
\* members of room(P) other than A: not to A, not to anyone outside the room.
C13_TypingExcludesSender ==
  lastOp.name \in {"typing-start", "typing-stop"} =>
    lastEmit = {TypingFrame(d) : d \in rooms[Room(lastOp.postId)] \ {lastOp.conn}}

\* A, a member of room(p1), starts typing: a co-member receives the frame,
\* A does not, and neither does a connected socket outside the room
C13_Witness ==
  /\ lastOp.name = "typing-start" /\ lastOp.postId = "p1"
  /\ lastOp.conn \in rooms[Room("p1")]
  /\ lastEmit # {}
  /\ \E d \in Connected : d \notin rooms[Room("p1")]

\* C14: every comment the store holds refers to an existing, published
\* post and, when it is a reply, to an existing parent comment (no comment
\* is ever deleted here, so this is what new-comment must have ensured when
\* it inserted the comment).
C14_CreatedOnlyForEligiblePost ==
  \A k \in DOMAIN comments :
    /\ comments[k].post \in DOMAIN posts
    /\ posts[comments[k].post].status = "published"
    /\ comments[k].parentComment \in {NoId} \cup DOMAIN comments

\* the handler suspended in slot t has just inserted comment k
Inserted(t, k) ==
  /\ tasks[t].kind = "idle"
  /\ tasks'[t].kind = "new-comment"
  /\ tasks'[t].commentId = k

\* C19: whenever new-comment inserts a comment, its author is the identity
\* bound at handshake to the connection that sent the event, an existing
\* user, whatever author the payload names.
C19_AuthorIsBoundIdentity ==
  [][\A k \in DOMAIN comments' \ DOMAIN comments :
       \E t \in TaskIds :
         /\ Inserted(t, k)
         /\ comments'[k].author = identity[tasks'[t].conn].userId
         /\ Bound(tasks'[t].conn)]_vars

\* a comment has been inserted for a payload that names another user as
\* its author
C19_Witness ==
  \E t \in TaskIds :
    /\ tasks[t].kind = "new-comment"
    /\ tasks[t].commentId \in DOMAIN comments
    /\ tasks[t].claimed \in UserIds \ {identity[tasks[t].conn].userId}

\* C17: a mutation handler that is suspended on the store when its
\* connection closes is not cancelled: it eventually completes with its
\* broadcast, which goes to exactly the members the room then has, the
\* closed connection not among them, and a comment it inserted is in the
\* store.
C17_DisconnectDoesNotCancel ==
  \A c \in Conns, n \in {"new-comment", "post-like"} :
    (lastOp.name = "disconnect" /\ lastOp.conn = c /\ n \in lastOp.pending)
      ~> (/\ lastOp.name = n
          /\ lastOp.conn = c
          /\ lastOp.outcome = "broadcast"
          /\ {m.to : m \in lastEmit} = rooms[Room(lastOp.postId)]
          /\ c \notin {m.to : m \in lastEmit}
          /\ \A m \in lastEmit : m.ev \in {"comment-added", "post-likes-updated"}
          /\ n = "new-comment" => lastOp.commentId \in DOMAIN comments)

\* the comment of a connection that closed before its handler resumed has
\* just been broadcast to the other connection, which is still in the room
C17_Witness ==
  /\ lastOp.name = "new-comment"
  /\ lastOp.outcome = "broadcast"
  /\ connState[lastOp.conn] = "Closed"
  /\ lastOp.commentId \in DOMAIN comments
  /\ lastEmit # {}
  /\ \A m \in lastEmit : m.to # lastOp.conn /\ m.ev = "comment-added"

\* C18: join-post and leave-post are idempotent and never fail: a connected
\* socket can always send either; afterwards the socket is (join) or is not
\* (leave) a member of the room; a join-post for a room the socket is in and
\* a leave-post for a room it is not in leave every room's member set and
\* every socket's room set as they were; and neither delivers any event, an
\* error event included.
C18_JoinLeaveIdempotent ==
  /\ [][/\ (lastOp'.name = "join-post"
            /\ lastOp'.conn \in rooms[Room(lastOp'.postId)]) =>
              rooms' = rooms /\ sids' = sids
        /\ (lastOp'.name = "leave-post"
            /\ lastOp'.conn \notin rooms[Room(lastOp'.postId)]) =>
              rooms' = rooms /\ sids' = sids]_vars
  /\ [](/\ lastOp.name = "join-post" =>
             lastOp.conn \in rooms[Room(lastOp.postId)] /\ lastEmit = {}
        /\ lastOp.name = "leave-post" =>
             lastOp.conn \notin rooms[Room(lastOp.postId)] /\ lastEmit = {}
        /\ \A c \in Connected, p \in PostIds :
             ENABLED JoinPost(c, p) /\ ENABLED LeavePost(c, p))

\* a socket that is in both rooms has just joined one of them again
C18_Witness ==
  /\ lastOp.name = "join-post"
  /\ lastOp.joined = {}
  /\ sids[lastOp.conn] = RoomIds

\* C15: every persisted comment has a body of 1 to 1000 characters.
C15_BodyLengthBounded ==
  \A k \in DOMAIN comments :
    /\ StrLen(comments[k].content) >= 1
    /\ StrLen(comments[k].content) <= MaxLength

\* C16: when the broadcast of a mutation on a post reaches the members of
\* the post's room, no mutation on the same post that was committed before
\* it is still waiting for its own broadcast: the frames arrive in commit
\* order.
C16_BroadcastInCommitOrder ==
  (/\ Completed
   /\ lastOp.name \in MutationNames
   /\ lastOp.outcome = "broadcast"
   /\ lastEmit # {}) => lastOp.after = {}

\* C20: a delete-comment naming a comment id that no comment ever had
\* completes without delivering comment-deleted to anyone.
C20_DeleteBroadcastsOnlyExisting ==
  (/\ Completed
   /\ lastOp.name = "delete-comment"
   /\ lastOp.commentId = MissingComment) =>
    \A m \in lastEmit : m.ev # "comment-deleted"

\* the events that confirm a change of persisted state
Confirmations ==
  {"comment-added", "comment-updated", "comment-deleted",
   "post-likes-updated", "comment-likes-updated"}

\* C21: when a mutation handler completes with its broadcast, the
\* confirmation is delivered to exactly the members of the post's room, and
\* the sender, when it is a member, is among the recipients.
C21_SenderSeesConfirmation ==
  (/\ Completed
   /\ lastOp.name \in MutationNames
   /\ lastOp.outcome = "broadcast") =>
    /\ {m.to : m \in lastEmit} = rooms[Room(lastOp.postId)]
    /\ \A m \in lastEmit : m.ev \in Confirmations
    /\ lastOp.conn \in rooms[Room(lastOp.postId)] =>
         \E m \in lastEmit : m.to = lastOp.conn

\* a like of the sender, which watches the post together with another
\* socket, has just been confirmed to both
C21_Witness ==
  /\ lastOp.name = "post-like"
  /\ lastOp.outcome = "broadcast"
  /\ lastOp.conn \in rooms[Room(lastOp.postId)]
  /\ {m.to : m \in lastEmit} = {"c1", "c2"}

\* the private-message frame of the last step, as delivered to d
Letter(d) ==
  [BlankMsg EXCEPT !.to = d, !.ev = "private-message",
     !.userId = identity[lastOp.conn].userId,
     !.username = identity[lastOp.conn].username,
     !.toUserId = lastOp.toUserId,
     !.toUsername = users[lastOp.toUserId].username,
     !.content = lastOp.content]

Online(d, c) ==
  [BlankMsg EXCEPT !.to = d, !.ev = "user-status", !.userId = identity[c].userId,
     !.username = identity[c].username, !.status = "online"]

\* C23 (as stated): user-online delivers user-status online to all
\* connections.
C23_OnlineToAllConnections ==
  lastOp.name = "user-online" => {m.to : m \in lastEmit} = Connected

\* C23: user-online delivers user-status online, carrying the sender's bound
\* identity, to every connected socket other than the sender, whatever rooms
\* the sockets are in, and to nobody else; the sender does not receive it.
C23_OnlineToAllOthers ==
  lastOp.name = "user-online" =>
    lastEmit = {Online(d, lastOp.conn) : d \in Connected \ {lastOp.conn}}

\* a socket outside every room has just announced itself while one of the
\* two other connected sockets watches a post and the other does not
C23_Witness ==
  /\ lastOp.name = "user-online"
  /\ sids[lastOp.conn] = {}
  /\ Cardinality(lastEmit) = 2
  /\ \E d \in Connected : sids[d] # {}
  /\ \E d \in Connected \ {lastOp.conn} : sids[d] = {}

\* comment k is not what it was: removed, or its body or edited mark changed
Edited(k) ==
  \/ k \notin DOMAIN comments'
  \/ comments'[k].content # comments[k].content
  \/ comments'[k].isEdited # comments[k].isEdited

\* slot t takes in a REST edit in this step
RestEditArrives(t) == tasks[t].kind = "idle" /\ tasks'[t].kind \in RestEdits

UpdateArrives(t) == tasks[t].kind = "idle" /\ tasks'[t].kind = "update-comment"

\* C25: the websocket path updates without an authorship test. An
\* update-comment event for an existing comment is never turned away: it is
\* answered at once only when the comment is missing; when the store accepts
\* it, whoever the sender is, the comment's body becomes the (trimmed)
\* payload and it is marked edited; and when the handler completes without a
\* store failure, comment-updated with that body is broadcast to the room.
C25_LiveUpdateSkipsOwnership ==
  /\ [][/\ (lastOp'.name = "update-comment" /\ events' # events /\ tasks' = tasks)
             => lastOp'.commentId \notin DOMAIN comments
        /\ \A t \in TaskIds :
             (UpdateArrives(t) /\ tasks'[t].err = "none") =>
               LET k == tasks'[t].commentId
               IN /\ k \in DOMAIN comments /\ k \in DOMAIN comments'
                  /\ comments'[k].content = tasks'[t].content
                  /\ comments'[k].isEdited]_vars
  /\ [](/\ Completed
        /\ lastOp.name = "update-comment"
        /\ lastOp.err = "none"
        /\ lastOp.commentId \in DOMAIN comments
        => /\ lastOp.outcome = "broadcast"
           /\ {m.to : m \in lastEmit} = rooms[Room(lastOp.postId)]
           /\ \A m \in lastEmit :
                m.ev = "comment-updated" /\ m.content = lastOp.content)

\* bob's update of alice's comment has just been broadcast to a watcher, and
\* the stored comment carries bob's text
C25_Witness ==
  /\ lastOp.name = "update-comment"
  /\ lastOp.outcome = "broadcast"
  /\ lastOp.commentId \in DOMAIN comments
  /\ comments[lastOp.commentId].author # lastOp.userId
  /\ comments[lastOp.commentId].content = lastOp.content
  /\ comments[lastOp.commentId].isEdited
  /\ lastEmit # {}

\* C26: an event whose name has no listener changes nothing: room
\* membership, the store, the connections and the suspended handlers are
\* as before, nothing is delivered to anyone, and the sender stays Active.
C26_UnknownEventIgnored ==
  /\ [][lastOp'.name \in InboundNames \ Registered =>
          /\ rooms' = rooms /\ sids' = sids
          /\ users' = users /\ posts' = posts /\ comments' = comments
          /\ nextComment' = nextComment
          /\ connState' = connState /\ identity' = identity
          /\ tasks' = tasks
          /\ lastEmit' = {}]_vars
  /\ [](lastOp.name \in InboundNames \ Registered =>
          /\ connState[lastOp.conn] = "Active"
          /\ lastEmit = {})

\* a socket that watches a post has just sent an unknown event while a like
\* handler is suspended on the store
C26_Witness ==
  /\ lastOp.name = "moderate-comment"
  /\ sids[lastOp.conn] # {}
  /\ \E t \in TaskIds : tasks[t].kind = "post-like"

\* the steps a connection's state may take
Transitions ==
  {<<"Connecting", "Active">>, <<"Connecting", "Closed">>, <<"Active", "Closed">>}

\* the handlers a socket's events start
SocketKinds == MutationKinds \cup {"private-message"}

\* C27: a connection's state changes only from Connecting to Active (the
\* credential was accepted), from Connecting to Closed (it was refused) or
\* from Active to Closed; a Closed connection stays Closed; and an event is
\* served, whether it has a listener or not, only for a connection that is
\* Active when it arrives.
C27_ConnectionLifecycle ==
  [][/\ \A c \in Conns :
          connState'[c] # connState[c] =>
            <<connState[c], connState'[c]>> \in Transitions
     /\ lastOp'.name \in (InboundNames \ SocketKinds) =>
          connState[lastOp'.conn] = "Active"
     /\ \A t \in TaskIds :
          (tasks[t].kind = "idle" /\ tasks'[t].kind \in SocketKinds) =>
            connState[tasks'[t].conn] = "Active"
     /\ (lastOp'.name \in SocketKinds /\ events' # events /\ tasks' = tasks) =>
          connState[lastOp'.conn] = "Active"]_vars

\* both ways to Closed have been taken: one connection was refused at the
\* handshake, the other was Active, watched a post and disconnected
C27_Witness ==
  /\ connState["c2"] = "Closed" /\ connError["c2"] # "none"
  /\ connState["c1"] = "Closed" /\ connError["c1"] = "none"
  /\ lastOp.name = "disconnect" /\ lastOp.left # {}

\* C28: when update-comment or comment-like completes with its broadcast
\* for a comment that is in the store, the confirmation is delivered to the
\* members of the room of the post the comment belongs to, whatever postId
\* the payload named.
C28_ConfirmationToCommentsRoom ==
  (/\ Completed
   /\ lastOp.name \in {"update-comment", "comment-like"}
   /\ lastOp.outcome = "broadcast"
   /\ lastOp.commentId \in DOMAIN comments) =>
    {m.to : m \in lastEmit} = rooms[Room(comments[lastOp.commentId].post)]

\* slot t runs its save in this step
LikeSaves(t) ==
  /\ tasks[t].kind \in LikeKinds
  /\ tasks[t].pc = "save"
  /\ tasks'[t].pc # "save"

\* C29: the step in which a like handler's save runs changes at most the
\* membership of the handler's own identity in the like set of its target:
\* every other identity is in that set afterwards exactly if it was before,
\* and the like array of every other post and comment is as it was. This
\* holds also when another identity's like on the same entity was saved
\* between this handler's read and its save.
C29_LikeTouchesOnlyCaller ==
  [][\A t \in TaskIds :
       LikeSaves(t) =>
         /\ \A e \in Entities \ {Target(tasks[t])} :
              StoredLikes(e)' = StoredLikes(e)
         /\ \A v \in UserIds \ {tasks[t].userId} :
              (v \in LikeSet(StoredLikes(Target(tasks[t])))')
                <=> (v \in LikeSet(StoredLikes(Target(tasks[t]))))]_vars

\* a like whose copy of the array was out of date when it was saved has gone
\* through, and the other identity's like is still in the stored set
C29_Witness ==
  \E t \in TaskIds :
    /\ tasks[t].kind \in {"post-like", "comment-like"}
    /\ tasks[t].pc = "emit"
    /\ tasks[t].stale
    /\ tasks[t].err = "none"
    /\ LikeSet(StoredLikes(Target(tasks[t]))) = UserIds

\* C30: every event the server delivers to a connection makes that
\* client's events$ (and messages$) emit exactly once.
C30_OneEmissionPerEvent ==
  \A m \in lastEmit : Len(Dispatch(m.ev)) = 1

====

